---------------------------- MODULE Spec2Model ----------------------------
(***************************************************************************)
(* A model of the rolling-straddle trading loop of tridroid-3/project.     *)
(*                                                                         *)
(* Part 1 models the Order Gateway, orchestrator/execution_adapter.py      *)
(* (class ExecutionAdapter): the circuit breaker, the retry loop of        *)
(* send_orders, the pending/filled ledgers, confirm_fill and poll_pending. *)
(* send_orders is modelled at the grain of its loops: one step for the     *)
(* gate, one per loop head, one per HTTP attempt, one for the batch end.   *)
(* The gateway is single threaded, so while a call is in progress          *)
(* (pc # "idle") no other operation of the gateway can start; only the     *)
(* wall clock moves.                                                       *)
(*                                                                         *)
(* Strings the code inspects character by character (tags, idempotency     *)
(* keys) are sequences of one-character strings.  Python's None is the     *)
(* string "None".                                                          *)
(***************************************************************************)
EXTENDS Integers, Sequences, FiniteSets, TLC

None == "None"

\* None in a slot that otherwise holds a number (a price, a time.time())
NoneNum == 0 - 1

\* datetime.now(timezone.utc).isoformat(): the text of the UTC clock.  The
\* program stores these texts and never reads them back, so the model keeps
\* one token for "the time of the call".
IsoNow == "utcnow"

(***************************************************************************)
(* Bounds of the model.                                                    *)
(***************************************************************************)
MaxRetries   == 2   \* max_retries is 1 or MaxRetries
MaxThreshold == 2   \* circuit_breaker_threshold is 1 or MaxThreshold
MaxTimeout   == 1   \* circuit_breaker_timeout
MaxTime      == 3   \* the wall clock is advanced up to MaxTime
MaxOrders    == 2   \* a batch holds 0..MaxOrders orders
MaxCalls     == 3   \* live batches of a delivery workload
MaxKeyCalls  == 1   \* live batches of a key workload
MaxFillCalls == 1   \* live batches of a fill workload, of one order each
MaxDate      == 3   \* the control loop runs on the dates 1..MaxDate
MaxBackoffRetries == 4  \* max_retries of a backoff workload
MaxCallbackRuns   == 2  \* no restart once a key's callback has run so often

(***************************************************************************)
(* Program constants.                                                      *)
(***************************************************************************)
TagLen    == 24     \* re.fullmatch(r'[0-9a-fA-F]{24}', tag)
SuffixLen == 8      \* uuid.uuid4().hex[:8]

\* RollingStraddleStrategy.__init__ with the defaults of its configuration
STRIKE_STEP      == 100
LOT_SIZE         == 20
MESSAGE_LOTS     == 1
STOPLOSS_PER_LOT == 3000
TARGET_PER_LOT   == 10000
ROLL_PCT         == 5
BUFFER           == 10
OTM_EXIT_PCT     == 25
realized_ce_mtm  == 0      \* never assigned a value other than 0.0
realized_pe_mtm  == 0
ACCOUNT_EQUITY        == 1000000  \* global.account_equity
MAX_DAILY_LOSS_PCT    == 3        \* global.max_daily_loss = 0.03
MAX_OPEN_EXPOSURE_PCT == 10       \* global.max_open_exposure = 0.10
current_exposure      == 0        \* update_exposure is never called
ATR_PERIOD              == 14     \* regime.atr_period
ADX_PERIOD              == 14     \* regime.adx_period
BB_PERIOD               == 20     \* regime.bb_period
SMA_PERIOD              == 20     \* regime.sma_period
SMA_LOOKBACK            == 5      \* regime.sma_lookback
ATR_HIGH_THRESHOLD      == 2      \* regime.atr_high_threshold = 2.0 %
ADX_TRENDING_THRESHOLD  == 25     \* regime.adx_trending_threshold
ADX_STRONG_THRESHOLD    == 40     \* regime.adx_strong_threshold
BB_WIDTH_HIGH_THRESHOLD == 50     \* regime.bb_width_high_threshold = 0.05
SMA_SLOPE_THRESHOLD     == 5      \* regime.sma_slope_threshold = 0.5 %
IV_RANK_HIGH            == 70     \* regime.iv_rank_high
IV_RANK_LOW             == 30     \* regime.iv_rank_low
IV_MIN_LEN              == 10     \* classify: len(iv_series) >= 10
HIGH_IV          == 25     \* _should_have_otm_wings: iv > 25
HIGH_IV_RANK     == 70     \* _should_have_otm_wings: iv_rank > 70
DEFAULT_IV       == 15     \* _calculate_otm_distance: iv_pct = 15.0
DefaultIvRank    == 50     \* RegimeClassifier.classify: the neutral default

VARIABLES
    config,                \* the 'execution' settings read in __init__
    fill_callback,         \* "none" | "ok" | "raises"
    consecutive_failures,
    circuit_open_time,
    circuit_state,
    pending_orders,        \* idempotency key -> record
    filled_orders,         \* idempotency key -> record
    pending_keys,          \* the keys of pending_orders as the dict
                           \* holds them: in the order of insertion
    pending_snapshot,      \* the content of pending_file + ".snapshot.json"
    snapshot_keys,         \* the keys of that file in the order written
    filled_snapshot,       \* the content of filled_file + ".snapshot.json"
    now,                   \* time.time() / datetime.now()
    pc,                    \* position inside send_orders: idle | loop | retry
    batch,                 \* the orders argument of the call in progress
    request_tag,
    request_webhook,       \* the URL the order in hand is posted to
    order_index,           \* i of "for i, order in enumerate(orders)"
    idempotency_key,
    attempt,
    retry_delay,
    order_success,
    last_error,
    responses,
    any_success,
    keys,                  \* the idempotency keys assigned in this call
    net_calls,             \* requests.post calls made by this call
    sleeps,                \* time.sleep arguments for the current order
    ret,                   \* the last finished call: the return statement
                           \* reached and the tuple of values returned
                           \* (<< >> for None)
    callback_log,          \* key -> number of fill_callback invocations
    sent_batches,          \* live batches started so far (bounded)
    env,                   \* the inputs the environment draws from
    \* the strategy (RollingStraddleStrategy)
    inputs,                \* the snapshots and fills the environment draws
                           \* and the stop distance of the configuration
    roll_pct,              \* self.ROLL_PCT
    open_positions,        \* the legs, in list order
    otm_legs,              \* the wing table, in insertion order
    last_atm,
    last_roll_time,
    in_position,
    has_otm_wings,
    baseline_ce_ltp,
    baseline_pe_ltp,
    st_ret,                \* the last finished call of the strategy
    emitted,               \* history: instrument -> lots bought less lots
                           \* sold over the orders the strategy returned
    closing,               \* the last send_orders of _perform_eod_exit: its
                           \* tag prefix and its any_ok, in a sequence;
                           \* << >> before the first
    \* the management part of the control loop (MasterOrchestrator.run)
    tick_snapshot,         \* {snapshot} while a tick manages, {} between
    tick_left,             \* entries of positions_copy still to visit
    tick_copy,             \* positions_copy
    tick_actions,          \* reasons of the actions dispatched this tick
    \* the risk manager (RiskManager)
    account_equity,        \* global.account_equity of the configuration
    daily_pnl,             \* date -> cumulative pnl
    daily_limit_breached,
    emergency_mode,
    \* the control loop (MasterOrchestrator.run)
    processed_schedule,    \* self._processed_schedule
    executed_for_date,     \* self._executed_for_date: date -> set of ids
    run_pc,                \* position inside run: top | poll | manage |
                           \* stopped
    run_now,               \* the clock as read at the top of the pass
    run_entry,             \* what the entry part of the pass came to
    run_exit,              \* how run was left
    fired,                 \* <<date, id>> -> the forced exits the schedule
                           \* entry has run on the date
    \* the regime classifier (RegimeClassifier)
    cls_arg,               \* the argument of the last call, in a set
    cls_ret                \* what the last call returned, in a set

gwConfig  == <<config, fill_callback, env>>
gwBreaker == <<consecutive_failures, circuit_open_time, circuit_state>>
gwLedgers == <<pending_orders, filled_orders, pending_keys, pending_snapshot,
               snapshot_keys,
               filled_snapshot>>
gwLocals  == <<batch, request_tag, request_webhook, order_index, idempotency_key, attempt,
               retry_delay, order_success, last_error, responses,
               any_success, keys, net_calls, sleeps>>
gwVars    == <<gwConfig, gwBreaker, gwLedgers, gwLocals, now, pc, ret,
               callback_log, sent_batches>>

stVars == <<inputs, roll_pct, open_positions, otm_legs, last_atm, last_roll_time,
            in_position, has_otm_wings, baseline_ce_ltp, baseline_pe_ltp,
            st_ret>>

loopVars == <<tick_snapshot, tick_left, tick_copy, tick_actions>>

riskVars == <<account_equity, daily_pnl, daily_limit_breached, emergency_mode>>

runVars == <<processed_schedule, executed_for_date, run_pc, run_now,
             run_entry, run_exit, fired>>

clsVars == <<cls_arg, cls_ret>>

netVars == <<emitted, closing>>

vars == <<gwVars, stVars, loopVars, riskVars, runVars, clsVars, netVars>>

-----------------------------------------------------------------------------
(***************************************************************************)
(* Strings.                                                                *)
(***************************************************************************)
Rep(c, n) == [k \in 1..n |-> c]

HexChars == {"0", "1", "2", "3", "4", "5", "6", "7", "8", "9",
             "a", "b", "c", "d", "e", "f", "A", "B", "C", "D", "E", "F"}

Is24Hex(tag) == /\ Len(tag) = TagLen
                /\ \A k \in 1..Len(tag) : tag[k] \in HexChars

DigitChar(d) == CASE d = 0 -> "0" [] d = 1 -> "1" [] d = 2 -> "2"
                  [] d = 3 -> "3" [] d = 4 -> "4" [] d = 5 -> "5"
                  [] d = 6 -> "6" [] d = 7 -> "7" [] d = 8 -> "8"
                  [] d = 9 -> "9"

RECURSIVE Dec(_)
Dec(n) == IF n < 10 THEN <<DigitChar(n)>>
          ELSE Dec(n \div 10) \o <<DigitChar(n % 10)>>

\* uuid.uuid4().hex[:24] and uuid.uuid4().hex[:8]: any value of these sets
RandomTags == {Rep("b", TagLen)}
Suffixes   == {Rep("0", SuffixLen), Rep("1", SuffixLen)}

\* the tag argument of send_orders: absent, a valid tag, a caller's label
PassedTags == {<<>>, Rep("a", TagLen), <<"r", "o", "l", "l", "-", "1">>}

\* valid tags that start with digits: two octal digits, a digit 8 or 9
DigitTags == {Rep("1", TagLen), <<"9">> \o Rep("e", TagLen - 1)}

EnsureTag(tag, rnd) == IF tag # <<>> /\ Is24Hex(tag) THEN tag ELSE rnd

RequestTag(tag, rnd) == IF tag # <<>> /\ Is24Hex(tag) THEN tag
                        ELSE EnsureTag(tag, rnd)

MakeKeyNoIndex(tag, idx, suffix) == tag \o <<"-">> \o suffix

MakeKey(tag, idx, suffix) == tag \o <<"-">> \o Dec(idx) \o <<"-">> \o suffix

\* A URL is its text before the query (config.webhook_url) and the
\* parameters of its query in order (config.webhook_query); a parameter
\* value is a sequence of characters without "&".
Param(name, value) == [name |-> name, value |-> value]

\* re.search(r'[?&]tag=', self.webhook_url)
HasTagParam(query) == \E k \in 1..Len(query) : query[k].name = "tag"

\* a request URL that keeps a tag parameter the URL has
WebhookKeepsUrlTag(url, query, tag, rnd) ==
    [url   |-> url,
     query |-> IF HasTagParam(query) THEN query
               ELSE Append(query, Param("tag", EnsureTag(tag, rnd)))]

OctDigits == {"0", "1", "2", "3", "4", "5", "6", "7"}

Digits == {"0", "1", "2", "3", "4", "5", "6", "7", "8", "9"}

OctVal(c) == CHOOSE d \in 0..7 : DigitChar(d) = c

\* chr(64), ..., chr(127)
AsciiFrom64 ==
    <<"@", "A", "B", "C", "D", "E", "F", "G", "H", "I", "J", "K", "L", "M",
      "N", "O", "P", "Q", "R", "S", "T", "U", "V", "W", "X", "Y", "Z", "[",
      "\\", "]", "^", "_", "GRAVE", "a", "b", "c", "d", "e", "f", "g", "h", "i",
      "j", "k", "l", "m", "n", "o", "p", "q", "r", "s", "t", "u", "v", "w",
      "x", "y", "z", "{", "|", "}", "~", "DEL">>

\* how re.sub reads its replacement r'\1' + tag: a tag that starts with a
\* letter leaves the reference to group 1; two octal digits after the 1 make
\* an octal escape; any other digit makes a reference to group 10..19
TemplateKind(tag) ==
    IF tag = << >> \/ tag[1] \notin Digits THEN "group"
    ELSE IF Len(tag) >= 2 /\ tag[1] \in OctDigits /\ tag[2] \in OctDigits
         THEN "octal"
         ELSE "error"

\* the text an octal escape puts in place of the whole match "&tag=value"
OctalText(tag) ==
    <<AsciiFrom64[8 * OctVal(tag[1]) + OctVal(tag[2]) + 1]>>
    \o SubSeq(tag, 3, Len(tag))

\* the match is replaced by the text: the tag parameter is gone and the text
\* continues the value of the parameter before it (in every URL of the model
\* the tag parameter follows another one)
RECURSIVE ReSubOctal(_, _)
ReSubOctal(query, text) ==
    IF query = << >> THEN << >>
    ELSE LET last  == query[Len(query)]
             front == ReSubOctal(SubSeq(query, 1, Len(query) - 1), text)
         IN  IF last.name = "tag"
             THEN [front EXCEPT ![Len(front)].value = @ \o text]
             ELSE Append(front, last)

\* re.sub(r'([?&]tag=)[^&]*', r'\1' + tag, url) raises re.error
WebhookRaises(query, tag, rnd) ==
    HasTagParam(query) /\ TemplateKind(EnsureTag(tag, rnd)) = "error"

\* _webhook_with_tag: re.sub writes the tag over the value of every tag
\* parameter, or the text of an octal escape over the parameter; without a
\* tag parameter one is appended
WebhookWithTag(url, query, tag, rnd) ==
    LET t == EnsureTag(tag, rnd)
    IN  [url   |-> url,
         query |-> IF HasTagParam(query)
                   THEN IF TemplateKind(t) = "octal"
                        THEN ReSubOctal(query, OctalText(t))
                        ELSE [k \in 1..Len(query) |->
                                IF query[k].name = "tag" THEN Param("tag", t)
                                ELSE query[k]]
                   ELSE Append(query, Param("tag", t))]

NoWebhook == [url |-> "", query |-> << >>]

\* the tag parameter of a configured webhook URL: valid, or malformed
UrlTags == {Rep("c", TagLen), <<"z", "z">>}

\* the query of a configured webhook URL: none, or a token and a tag
UrlQueries ==
    {<< >>} \cup
    {<<Param("token", <<"t">>), Param("tag", t)>> : t \in UrlTags}

-----------------------------------------------------------------------------
(***************************************************************************)
(* Inputs.                                                                 *)
(***************************************************************************)
SellCall == [instrument |-> "CE", action |-> "sell", lots |-> 1]
BuyPut   == [instrument |-> "PE", action |-> "buy",  lots |-> 1]

\* the batches sent: n orders, alternately a sell and a buy
BatchOf(n) == [k \in 1..n |-> IF k % 2 = 1 THEN SellCall ELSE BuyPut]

Batches == {BatchOf(n) : n \in 0..MaxOrders}

\* what one requests.post can do: a status code, or an exception
Outcomes == {"200", "500", "timeout", "error"}

\* _parse_order_id(resp.text): an id, or None when the body holds none
OrderIds == {None, "OID"}

\* the (fill_price, fill_time) arguments of confirm_fill: both defaulted,
\* or both given
FillArgs == {<<NoneNum, None>>, <<100, "2025-10-23T09:15:00">>}

\* order status templates: one with {idempotency_key}, one with {order_id}
KeyTemplate     == "status/{idempotency_key}"
OrderIdTemplate == "status/{order_id}"

\* the status a 200 answer of the status endpoint carries; None when it
\* carries none
PollStatuses == {"filled", "COMPLETE", "Closed", "executed", "open", None}

\* one status request of poll_pending: a status code other than 200, an
\* exception of requests.get or r.json, or a 200 answer with its status
PollOutcomes == {"non200", "error"} \cup PollStatuses

UnknownKey == <<"x">>

DefaultConfig == [max_retries               |-> 1,
                  circuit_breaker_threshold |-> 1,
                  circuit_breaker_timeout   |-> 1,
                  initial_retry_delay       |-> 1,
                  max_retry_delay           |-> 2,
                  simulation_mode           |-> FALSE,
                  webhook_url               |-> "url",
                  webhook_query             |-> << >>,
                  immediate_poll_on_send    |-> FALSE,
                  order_status_url_template |-> None]

\* Delivery workloads: the smallest and the largest retry count and
\* threshold, many batches, one tag and one suffix, no fills.
DeliveryConfigs ==
    {[DefaultConfig EXCEPT !.max_retries = r,
                           !.circuit_breaker_threshold = th,
                           !.circuit_breaker_timeout = MaxTimeout] :
        r \in {1, MaxRetries}, th \in {1, MaxThreshold}}

DeliveryEnv == [tags        |-> {<<>>},
                suffixes    |-> {Rep("0", SuffixLen)},
                order_ids   |-> {"OID"},
                outcomes    |-> {"200", "500"},
                fill_args   |-> {},
                templates   |-> {},
                max_orders  |-> MaxOrders,
                max_batches |-> MaxCalls]

\* Key workloads: every tag and suffix, simulation mode, a missing URL;
\* every request is delivered, no fills.
KeyConfigs ==
    {[DefaultConfig EXCEPT !.simulation_mode = sim, !.webhook_url = url] :
        sim \in BOOLEAN, url \in {"", "url"}} \
    {[DefaultConfig EXCEPT !.simulation_mode = TRUE, !.webhook_url = ""]}

KeyEnv == [tags        |-> PassedTags,
           suffixes    |-> Suffixes,
           order_ids   |-> {"OID"},
           outcomes    |-> {"200"},
           fill_args   |-> {},
           templates   |-> {},
           max_orders  |-> MaxOrders,
           max_batches |-> MaxKeyCalls]

\* Fill workloads: every order id, callback and fill argument, the immediate
\* poll; orders are sent one at a time.
FillConfigs ==
    {DefaultConfig,
     [DefaultConfig EXCEPT !.immediate_poll_on_send = TRUE,
                           !.order_status_url_template = KeyTemplate]}

FillEnv == [tags        |-> {<<>>},
            suffixes    |-> {Rep("0", SuffixLen)},
            order_ids   |-> OrderIds,
            outcomes    |-> {"200", "timeout", "error"},
            fill_args   |-> FillArgs,
            templates   |-> {None, KeyTemplate, OrderIdTemplate},
            max_orders  |-> 1,
            max_batches |-> MaxFillCalls]

\* Poll workloads: one batch of up to MaxOrders orders, every order id,
\* both templates, no confirm_fill from outside.
PollEnv == [tags        |-> {<<>>},
            suffixes    |-> {Rep("0", SuffixLen)},
            order_ids   |-> OrderIds,
            outcomes    |-> {"200"},
            fill_args   |-> {},
            templates   |-> {KeyTemplate, OrderIdTemplate},
            max_orders  |-> MaxOrders,
            max_batches |-> 1]

\* Backoff workloads: one order that is tried MaxBackoffRetries times, with
\* an initial delay below and one above max_retry_delay.
BackoffConfigs ==
    {[DefaultConfig EXCEPT !.max_retries = MaxBackoffRetries,
                           !.initial_retry_delay = d] : d \in {1, 3}}

BackoffEnv == [tags        |-> {<<>>},
               suffixes    |-> {Rep("0", SuffixLen)},
               order_ids   |-> {"OID"},
               outcomes    |-> {"200", "500"},
               fill_args   |-> {},
               templates   |-> {},
               max_orders  |-> 1,
               max_batches |-> 1]

\* URL workloads: a webhook URL without a query, with a valid tag and with
\* a malformed one; every tag argument; one order that is delivered.
UrlConfigs ==
    {[DefaultConfig EXCEPT !.webhook_query = q] : q \in UrlQueries}

UrlEnv == [tags        |-> PassedTags \cup DigitTags,
           suffixes    |-> {Rep("0", SuffixLen)},
           order_ids   |-> {"OID"},
           outcomes    |-> {"200"},
           fill_args   |-> {},
           templates   |-> {},
           max_orders  |-> 1,
           max_batches |-> 1]

Workloads ==
    {[config |-> DefaultConfig, fill_callback |-> "ok", env |-> PollEnv]}
    \cup
    {[config |-> c, fill_callback |-> "ok", env |-> UrlEnv] :
        c \in UrlConfigs}
    \cup
    {[config |-> c, fill_callback |-> "ok", env |-> BackoffEnv] :
        c \in BackoffConfigs}
    \cup
    {[config |-> c, fill_callback |-> "ok", env |-> DeliveryEnv] :
        c \in DeliveryConfigs}
    \cup
    {[config |-> c, fill_callback |-> "ok", env |-> KeyEnv] :
        c \in KeyConfigs}
    \cup
    {[config |-> c, fill_callback |-> cb, env |-> FillEnv] :
        c \in FillConfigs, cb \in {"none", "ok", "raises"}}

-----------------------------------------------------------------------------
(***************************************************************************)
(* Circuit breaker helpers.                                                *)
(***************************************************************************)
CheckNeverRejects(state, open_time, t, timeout) ==
    [ok |-> TRUE, state |-> state]

CheckCircuitBreaker(state, open_time, t, timeout) ==
    IF state = "OPEN"
    THEN IF (t - (IF open_time = NoneNum THEN 0 ELSE open_time)) > timeout
         THEN [ok |-> TRUE,  state |-> "HALF_OPEN"]
         ELSE [ok |-> FALSE, state |-> "OPEN"]
    ELSE [ok |-> TRUE, state |-> state]

RecordSuccessKeepsState(cf, state) ==
    [consecutive_failures |-> 0, circuit_state |-> state]

RecordSuccess(cf, state) ==
    [consecutive_failures |-> 0,
     circuit_state |-> IF state = "HALF_OPEN" THEN "CLOSED" ELSE state]

RecordFailureOpensEarly(cf, state, open_time, t, threshold) ==
    IF cf + 1 >= threshold - 1
    THEN [consecutive_failures |-> cf + 1, circuit_state |-> "OPEN",
          circuit_open_time |-> t]
    ELSE [consecutive_failures |-> cf + 1, circuit_state |-> state,
          circuit_open_time |-> open_time]

RecordFailureCountsOrders(cf, state, open_time, t, threshold) ==
    IF cf + Len(batch) >= threshold
    THEN [consecutive_failures |-> cf + Len(batch), circuit_state |-> "OPEN",
          circuit_open_time |-> t]
    ELSE [consecutive_failures |-> cf + Len(batch), circuit_state |-> state,
          circuit_open_time |-> open_time]

RecordFailure(cf, state, open_time, t, threshold) ==
    IF cf + 1 >= threshold
    THEN [consecutive_failures |-> cf + 1, circuit_state |-> "OPEN",
          circuit_open_time |-> t]
    ELSE [consecutive_failures |-> cf + 1, circuit_state |-> state,
          circuit_open_time |-> open_time]


-----------------------------------------------------------------------------
(***************************************************************************)
(* Ledgers.                                                                *)
(***************************************************************************)
Put(f, k, v) == [x \in DOMAIN f \cup {k} |-> IF x = k THEN v ELSE f[x]]

Drop(f, k) == [x \in DOMAIN f \ {k} |-> f[x]]

Count(log, k) == IF k \in DOMAIN log THEN log[k] ELSE 0

\* json.dump(ledger, f, default=str): the keys are strings and a record
\* holds strings, numbers and None, which are written as they are
JsonDump(ledger) ==
    [k \in DOMAIN ledger |-> [field \in DOMAIN ledger[k] |-> ledger[k][field]]]

\* json.load and {str(k): v for k, v in data.items()}
JsonLoad(snapshot_file) ==
    [k \in DOMAIN snapshot_file |-> snapshot_file[k]]

\* _load_persisted_orders into the empty ledgers of __init__.  Every write
\* has succeeded, so a snapshot file exists whenever its append log does
\* and the log is not read.
LoadPersistedOrders(pending_file, filled_file) ==
    [pending |-> JsonLoad(pending_file), filled |-> JsonLoad(filled_file)]

\* the _persist_filled_record calls of the confirm_fill calls that found
\* their key pending: the last of them leaves the filled ledger in the
\* snapshot; the pending snapshot is not written
PersistFilled(filled) ==
    /\ filled_snapshot' = IF filled # filled_orders THEN JsonDump(filled)
                          ELSE filled_snapshot
    /\ UNCHANGED <<pending_snapshot, snapshot_keys>>

\* dict.pop keeps the order of the keys that stay
KeysLeft(order, pend) ==
    LET Stays(k) == k \in DOMAIN pend IN SelectSeq(order, Stays)

PendingRecord(order, order_id) ==
    [order |-> order, order_id |-> order_id, timestamp |-> IsoNow,
     status |-> "pending"]

FilledRecord(rec, fill_price, fill_time) ==
    [order |-> rec.order, order_id |-> rec.order_id,
     timestamp |-> rec.timestamp, status |-> "filled",
     fill_price |-> fill_price,
     fill_time |-> IF fill_time = None THEN IsoNow ELSE fill_time]

\* the callback is invoked when one is set; what it raises is caught
InvokeCallback(cb, log, key) ==
    IF cb = "none" THEN log ELSE Put(log, key, Count(log, key) + 1)

ConfirmFillKeepsPending(pend, fill, log, cb, key, fill_price, fill_time) ==
    IF key \in DOMAIN pend
    THEN [pending |-> pend,
          filled  |-> Put(fill, key,
                          FilledRecord(pend[key], fill_price, fill_time)),
          log     |-> InvokeCallback(cb, log, key),
          value   |-> TRUE,
          raised  |-> FALSE]
    ELSE [pending |-> pend, filled |-> fill, log |-> log,
          value |-> FALSE, raised |-> FALSE]

ConfirmFillUnknownKeyFills(pend, fill, log, cb, key, fill_price, fill_time) ==
    [pending |-> IF key \in DOMAIN pend THEN Drop(pend, key) ELSE pend,
     filled  |-> Put(fill, key,
                     [status |-> "filled", fill_price |-> fill_price,
                      fill_time |-> IF fill_time = None THEN IsoNow ELSE fill_time]),
     log     |-> InvokeCallback(cb, log, key),
     value   |-> key \in DOMAIN pend,
     raised  |-> FALSE]

\* confirm_fill: the new ledgers, the callback log and the returned value
ConfirmFillEffect(pend, fill, log, cb, key, fill_price, fill_time) ==
    IF key \in DOMAIN pend
    THEN [pending |-> Drop(pend, key),
          filled  |-> Put(fill, key,
                          FilledRecord(pend[key], fill_price, fill_time)),
          log     |-> InvokeCallback(cb, log, key),
          value   |-> TRUE,
          raised  |-> FALSE]
    ELSE [pending |-> pend, filled |-> fill, log |-> log,
          value |-> FALSE, raised |-> FALSE]

\* str.lower of the statuses of the model
Lower(status) ==
    CASE status = "COMPLETE" -> "complete"
      [] status = "Closed"   -> "closed"
      [] OTHER               -> status

\* poll_pending line 526: the answer is a 200 with a terminal status
IsTerminalAnswer(answer) ==
    /\ answer \notin {"non200", "error", None}
    /\ Lower(answer) \in {"filled", "complete", "closed", "executed"}

\* template.format(field=...): KeyError when the template names the other
\* field
FormatUrl(template, field) ==
    [raised |-> IF template = OrderIdTemplate THEN field # "order_id"
                ELSE field # "idempotency_key",
     url    |-> <<template, field>>]

\* poll_pending lines 509-516: the url of one record
PollUrl(template, order_id) ==
    IF order_id = None /\ template # OrderIdTemplate
    THEN FormatUrl(template, "idempotency_key")
    ELSE IF order_id # None /\ template = OrderIdTemplate
    THEN FormatUrl(template, "order_id")
    ELSE FormatUrl(template, "idempotency_key")

\* poll_pending: "for kid, rec in list(self.pending_orders.items())", in
\* the order of insertion, one status request per record; answers[kid] is
\* what the request gave.  The url is built outside the try block.
RECURSIVE PollLoop(_, _, _, _, _, _, _)
PollLoop(todo, template, pend, fill, log, cb, answers) ==
    IF todo = << >>
    THEN [pending |-> pend, filled |-> fill, log |-> log, raised |-> FALSE]
    ELSE LET kid == Head(todo)
             e   == IF IsTerminalAnswer(answers[kid])
                    THEN ConfirmFillEffect(pend, fill, log, cb, kid,
                                           NoneNum, None)
                    ELSE [pending |-> pend, filled |-> fill, log |-> log]
         IN  IF PollUrl(template, pend[kid].order_id).raised
             THEN [pending |-> pend, filled |-> fill, log |-> log,
                   raised |-> TRUE]
             ELSE PollLoop(Tail(todo), template, e.pending, e.filled, e.log,
                           cb, answers)

PollPendingEffect(template, todo, pend, fill, log, cb, answers) ==
    IF DOMAIN pend = {} \/ template = None
    THEN [pending |-> pend, filled |-> fill, log |-> log, raised |-> FALSE]
    ELSE PollLoop(todo, template, pend, fill, log, cb, answers)

-----------------------------------------------------------------------------
(***************************************************************************)
(* The gateway after __init__ (no persisted files yet).                    *)
(***************************************************************************)
InitGatewayWith(workloads) ==
    /\ \E w \in workloads : /\ config = w.config
                            /\ fill_callback = w.fill_callback
                            /\ env = w.env
    /\ consecutive_failures = 0
    /\ circuit_open_time = NoneNum
    /\ circuit_state = "CLOSED"
    /\ pending_orders = << >>
    /\ filled_orders = << >>
    /\ pending_keys = << >>
    /\ pending_snapshot = << >>
    /\ snapshot_keys = << >>
    /\ filled_snapshot = << >>
    /\ now = 0
    /\ pc = "idle"
    /\ batch = << >>
    /\ request_tag = << >>
    /\ request_webhook = NoWebhook
    /\ order_index = 0
    /\ idempotency_key = << >>
    /\ attempt = 0
    /\ retry_delay = 0
    /\ order_success = FALSE
    /\ last_error = None
    /\ responses = << >>
    /\ any_success = FALSE
    /\ keys = << >>
    /\ net_calls = 0
    /\ sleeps = << >>
    /\ ret = [op |-> "init", at |-> 76, raised |-> FALSE, value |-> << >>]
    /\ callback_log = << >>
    /\ sent_batches = 0

\* the wall clock.  The code compares it with circuit_open_time only while
\* the breaker is OPEN, so it is advanced only then: every elapsed time
\* since the breaker opened is covered.
Tick ==
    /\ circuit_state = "OPEN"
    /\ now < MaxTime
    /\ now' = now + 1
    /\ UNCHANGED <<gwConfig, gwBreaker, gwLedgers, gwLocals, pc, ret,
                   callback_log, sent_batches>>

SimulatedResponse(order, sim_id) ==
    [order |-> order, status |-> 200, simulated |-> TRUE, success |-> TRUE,
     order_id |-> <<"S", "I", "M", "-">> \o sim_id,
     response |-> "Simulated order"]

\* send_orders up to the head of its for loop: the URL check, the breaker
\* gate, simulation mode, the request tag
SendOrders(orders, tag, rnd, sim_id) ==
    /\ pc = "idle"
    /\ LET chk == CheckCircuitBreaker(circuit_state, circuit_open_time, now,
                                      config.circuit_breaker_timeout)
           returns(line, v) ==
                         /\ ret' = [op |-> "send_orders", at |-> line,
                                    raised |-> FALSE, value |-> v]
                         /\ net_calls' = 0
                         /\ keys' = << >>
                         /\ UNCHANGED <<pc, batch, request_tag,
                                        request_webhook, order_index,
                                        idempotency_key, attempt, retry_delay,
                                        order_success, last_error, responses,
                                        any_success, sleeps, sent_batches>>
       IN  IF config.webhook_url = ""
           THEN returns(277, <<FALSE, << >> >>) /\ UNCHANGED circuit_state
           ELSE IF ~chk.ok
           THEN returns(281, <<FALSE, << >> >>) /\ circuit_state' = chk.state
           ELSE IF config.simulation_mode
           THEN /\ returns(296, <<TRUE, [k \in 1..Len(orders) |->
                                      SimulatedResponse(orders[k], sim_id)]>>)
                /\ circuit_state' = chk.state
           ELSE /\ sent_batches < env.max_batches
                /\ Len(orders) <= env.max_orders
                /\ sent_batches' = sent_batches + 1
                /\ circuit_state' = chk.state
                /\ batch' = orders
                /\ request_tag' = RequestTag(tag, rnd)
                /\ responses' = << >>
                /\ any_success' = FALSE
                /\ order_index' = 0
                /\ keys' = << >>
                /\ net_calls' = 0
                /\ pc' = "loop"
                /\ UNCHANGED <<idempotency_key, attempt, retry_delay,
                               order_success, last_error, sleeps, ret,
                               request_webhook>>
    /\ UNCHANGED <<gwConfig, consecutive_failures, circuit_open_time,
                   gwLedgers, now, callback_log>>

\* the head of "for i, order in enumerate(orders)" with an order left; the
\* request URL is built outside the try, so an re.error leaves send_orders
NextOrder(suffix) ==
    /\ pc = "loop"
    /\ order_index < Len(batch)
    /\ \E rnd \in RandomTags :
          IF WebhookRaises(config.webhook_query, request_tag, rnd)
          THEN /\ ret' = [op |-> "send_orders", at |-> 323, raised |-> TRUE,
                          value |-> << >>]
               /\ pc' = "idle"
               /\ batch' = << >>
               /\ request_tag' = << >>
               /\ request_webhook' = NoWebhook
               /\ order_index' = 0
               /\ idempotency_key' = << >>
               /\ attempt' = 0
               /\ retry_delay' = 0
               /\ order_success' = FALSE
               /\ last_error' = None
               /\ responses' = << >>
               /\ any_success' = FALSE
               /\ keys' = << >>
               /\ net_calls' = 0
               /\ sleeps' = << >>
          ELSE /\ idempotency_key' = MakeKey(request_tag, order_index, suffix)
               /\ keys' = Append(keys, idempotency_key')
               /\ attempt' = 0
               /\ retry_delay' = config.initial_retry_delay
               /\ order_success' = FALSE
               /\ last_error' = None
               /\ sleeps' = << >>
               /\ request_webhook' = WebhookWithTag(config.webhook_url,
                                                    config.webhook_query,
                                                    request_tag, rnd)
               /\ pc' = "retry"
               /\ UNCHANGED <<batch, request_tag, order_index, responses,
                              any_success, net_calls, ret>>
    /\ UNCHANGED <<gwConfig, gwBreaker, gwLedgers, now, callback_log,
                   sent_batches>>

RetryLoopStopsEarly(tries, max_retries, success) ==
    tries + 1 < max_retries /\ ~success

\* "while attempt < self.max_retries and not order_success"
RetryLoopContinues(tries, max_retries, success) ==
    tries < max_retries /\ ~success

\* one pass of the while loop: one requests.post
Attempt(outcome, order_id) ==
    /\ pc = "retry"
    /\ RetryLoopContinues(attempt, config.max_retries, order_success)
    /\ attempt' = attempt + 1
    /\ net_calls' = net_calls + 1
    /\ IF outcome = "200"
       THEN /\ order_success' = TRUE
            /\ any_success' = TRUE
            /\ responses' = Append(responses,
                   [order |-> batch[order_index + 1], status |-> 200,
                    success |-> TRUE, order_id |-> order_id,
                    idempotency_key |-> idempotency_key,
                    response |-> "body", simulated |-> FALSE])
            /\ pending_orders' = Put(pending_orders, idempotency_key,
                   PendingRecord(batch[order_index + 1], order_id))
            /\ pending_keys' = IF idempotency_key \in DOMAIN pending_orders
                               THEN pending_keys
                               ELSE Append(pending_keys, idempotency_key)
            /\ pending_snapshot' = JsonDump(pending_orders')
            /\ snapshot_keys' = pending_keys'
            /\ UNCHANGED <<last_error, retry_delay, sleeps>>
       ELSE /\ last_error' = outcome
            /\ IF attempt' < config.max_retries
               THEN /\ sleeps' = Append(sleeps, retry_delay)
                    /\ retry_delay' = IF retry_delay * 2 < config.max_retry_delay
                                      THEN retry_delay * 2
                                      ELSE config.max_retry_delay
               ELSE UNCHANGED <<sleeps, retry_delay>>
            /\ UNCHANGED <<order_success, any_success, responses,
                           pending_orders, pending_keys,
                           pending_snapshot, snapshot_keys>>
    /\ UNCHANGED <<gwConfig, gwBreaker, filled_orders, filled_snapshot,
                   batch, request_tag, request_webhook,
                   order_index, idempotency_key, keys, now, pc, ret,
                   callback_log, sent_batches>>

\* the while loop is over: "if not order_success: responses.append(...)"
EndOrder ==
    /\ pc = "retry"
    /\ ~RetryLoopContinues(attempt, config.max_retries, order_success)
    /\ responses' = IF order_success THEN responses
                    ELSE Append(responses,
                           [order |-> batch[order_index + 1],
                            status |-> "failed", success |-> FALSE,
                            error |-> last_error, attempts |-> attempt,
                            simulated |-> FALSE])
    /\ order_index' = order_index + 1
    /\ pc' = "loop"
    /\ UNCHANGED <<gwConfig, gwBreaker, gwLedgers, batch, request_tag,
                   request_webhook,
                   idempotency_key, attempt, retry_delay, order_success,
                   last_error, any_success, keys, net_calls, sleeps, now, ret,
                   callback_log, sent_batches>>

\* after the for loop: the breaker update, the optional immediate poll,
\* the return
FinishBatch(answers) ==
    /\ pc = "loop"
    /\ order_index = Len(batch)
    /\ answers \in [DOMAIN pending_orders -> PollOutcomes]
    /\ LET b == IF any_success
                THEN RecordSuccess(consecutive_failures, circuit_state)
                     @@ [circuit_open_time |-> circuit_open_time]
                ELSE RecordFailure(consecutive_failures, circuit_state,
                                   circuit_open_time, now,
                                   config.circuit_breaker_threshold)
           p == IF config.immediate_poll_on_send
                THEN PollPendingEffect(config.order_status_url_template,
                                       pending_keys,
                                       pending_orders, filled_orders,
                                       callback_log, fill_callback, answers)
                ELSE [pending |-> pending_orders, filled |-> filled_orders,
                      log |-> callback_log]
       IN  /\ consecutive_failures' = b.consecutive_failures
           /\ circuit_state' = b.circuit_state
           /\ circuit_open_time' = b.circuit_open_time
           /\ pending_orders' = p.pending
           /\ pending_keys' = KeysLeft(pending_keys, p.pending)
           /\ filled_orders' = p.filled
           /\ PersistFilled(p.filled)
           /\ callback_log' = p.log
    /\ ret' = [op |-> "send_orders", at |-> 416, raised |-> FALSE,
               value |-> <<any_success, responses>>]
    /\ pc' = "idle"
    \* the call is over: its locals are gone
    /\ batch' = << >>
    /\ request_tag' = << >>
    /\ request_webhook' = NoWebhook
    /\ order_index' = 0
    /\ idempotency_key' = << >>
    /\ attempt' = 0
    /\ retry_delay' = 0
    /\ order_success' = FALSE
    /\ last_error' = None
    /\ responses' = << >>
    /\ any_success' = FALSE
    /\ keys' = << >>
    /\ net_calls' = 0
    /\ sleeps' = << >>
    /\ UNCHANGED <<gwConfig, now, sent_batches>>

\* ExecutionAdapter.confirm_fill(idempotency_key, fill_price, fill_time)
ConfirmFill(key, fill_price, fill_time) ==
    /\ pc = "idle"
    /\ LET e == ConfirmFillEffect(pending_orders, filled_orders, callback_log,
                                  fill_callback, key, fill_price, fill_time)
       IN  /\ pending_orders' = e.pending
           /\ pending_keys' = KeysLeft(pending_keys, e.pending)
           /\ filled_orders' = e.filled
           /\ PersistFilled(e.filled)
           /\ callback_log' = e.log
           /\ ret' = [op |-> "confirm_fill",
                      at |-> IF e.value THEN 473 ELSE 474,
                      raised |-> e.raised, value |-> <<e.value>>]
    /\ UNCHANGED <<gwConfig, gwBreaker, gwLocals, now, pc, sent_batches>>

\* ExecutionAdapter.poll_pending(order_status_url_template)
PollPending(template, answers) ==
    /\ pc = "idle"
    /\ answers \in [DOMAIN pending_orders -> PollOutcomes]
    /\ LET tpl == IF template = None THEN config.order_status_url_template
                  ELSE template
           p == PollPendingEffect(tpl, pending_keys, pending_orders,
                                  filled_orders,
                                  callback_log, fill_callback, answers)
       IN  /\ pending_orders' = p.pending
           /\ pending_keys' = KeysLeft(pending_keys, p.pending)
           /\ filled_orders' = p.filled
           /\ PersistFilled(p.filled)
           /\ callback_log' = p.log
           /\ ret' = [op |-> "poll_pending",
                      at |-> IF p.raised THEN 516 ELSE 534,
                      raised |-> p.raised, value |-> << >>]
    /\ UNCHANGED <<gwConfig, gwBreaker, gwLocals, now, pc, sent_batches>>

KnownKeys == DOMAIN pending_orders \cup DOMAIN filled_orders \cup {UnknownKey}

SendOrdersCall ==
    \E orders \in Batches, tag \in env.tags, rnd \in RandomTags,
       sim_id \in env.suffixes : SendOrders(orders, tag, rnd, sim_id)

NextOrderStep == \E suffix \in env.suffixes : NextOrder(suffix)

AttemptStep == \E outcome \in env.outcomes, order_id \in env.order_ids :
                  Attempt(outcome, order_id)

\* status requests are made only by the immediate poll
FinishBatchStep ==
    \E answers \in (IF config.immediate_poll_on_send
                    THEN [DOMAIN pending_orders -> PollOutcomes]
                    ELSE {[k \in DOMAIN pending_orders |-> "non200"]}) :
       FinishBatch(answers)

ConfirmFillCall == \E key \in KnownKeys, fa \in env.fill_args :
                      ConfirmFill(key, fa[1], fa[2])

PollPendingCall == \E template \in env.templates,
                      answers \in [DOMAIN pending_orders -> PollOutcomes] :
                      PollPending(template, answers)

-----------------------------------------------------------------------------
(***************************************************************************)
(* Part 2: the Strategy Engine, strategies/rolling_straddle.py (class      *)
(* RollingStraddleStrategy), driven as orchestrator/master.py drives it.   *)
(* Prices are whole numbers; a percentage comparison a / b * 100 >= p is   *)
(* made as a * 100 >= p * b.  An option symbol is the sequence of its      *)
(* characters, built and parsed as the code builds and parses it.          *)
(***************************************************************************)
Abs(x) == IF x < 0 THEN 0 - x ELSE x

Symbol == <<"S", "E", "N", "S", "E", "X">>

ExpiryDate == <<"2", "0", "2", "5", "-", "1", "0", "-", "2", "3">>

UpperCase == {"A", "B", "C", "D", "E", "F", "G", "H", "I", "J", "K", "L",
              "M", "N", "O", "P", "Q", "R", "S", "T", "U", "V", "W", "X",
              "Y", "Z"}

DigitValue(c) == CASE c = "0" -> 0 [] c = "1" -> 1 [] c = "2" -> 2
                   [] c = "3" -> 3 [] c = "4" -> 4 [] c = "5" -> 5
                   [] c = "6" -> 6 [] c = "7" -> 7 [] c = "8" -> 8
                   [] c = "9" -> 9

\* int(s) of a run of digits
RECURSIVE IntOf(_)
IntOf(s) == IF s = << >> THEN 0
            ELSE IntOf(SubSeq(s, 1, Len(s) - 1)) * 10 + DigitValue(s[Len(s)])

\* self.EXPIRY_DATE.replace("-", "")[2:]
Yymmdd == LET plain == SelectSeq(ExpiryDate, LAMBDA c : c # "-")
          IN  SubSeq(plain, 3, Len(plain))

\* _build_option_symbol: f"{SYMBOL}{yymmdd}{opt_type}{int(strike)}"
BuildOptionSymbol(strike, opt_type) ==
    Symbol \o Yymmdd \o <<opt_type>> \o Dec(strike)

\* the length of the longest prefix of s made of characters of set
RECURSIVE Run(_, _)
Run(s, set) == IF s # << >> /\ s[1] \in set THEN 1 + Run(Tail(s), set)
               ELSE 0

\* re.match(r"([A-Z]+)(\d{6})([CP])(\d+)", instrument): the option type and
\* the strike, or no match
ParseInstrument(instrument) ==
    LET n     == Run(instrument, UpperCase)
        rest  == SubSeq(instrument, n + 1, Len(instrument))
        tail7 == SubSeq(rest, 8, Len(rest))
    IN  IF /\ n >= 1
           /\ Len(rest) >= 8
           /\ \A k \in 1..6 : rest[k] \in Digits
           /\ rest[7] \in {"C", "P"}
           /\ Run(tail7, Digits) >= 1
        THEN [match |-> TRUE, opt_type |-> rest[7],
              strike |-> IntOf(SubSeq(tail7, 1, Run(tail7, Digits)))]
        ELSE [match |-> FALSE, opt_type |-> None, strike |-> NoneNum]

\* instr.endswith(c)
EndsWith(instrument, c) ==
    instrument # << >> /\ instrument[Len(instrument)] = c

\* _get_ltp_for_instrument: the price of the first chain item at the
\* instrument's strike, 0.0 when the symbol does not parse or no item matches
RECURSIVE LtpForInstrument(_, _)
LtpForInstrument(data, instrument) ==
    LET m == ParseInstrument(instrument)
    IN  IF ~m.match \/ data = << >> THEN 0
        ELSE IF data[1].strike_price = m.strike
        THEN IF m.opt_type = "C" THEN data[1].ce_ltp ELSE data[1].pe_ltp
        ELSE LtpForInstrument(Tail(data), instrument)

\* min(seq, key=lambda x: abs(x - target)): the first of the closest
RECURSIVE Closest(_, _)
Closest(seq, target) ==
    IF Len(seq) = 1 THEN seq[1]
    ELSE LET rest == Closest(Tail(seq), target)
         IN  IF Abs(seq[1] - target) <= Abs(rest - target) THEN seq[1]
             ELSE rest

Strikes(chain) == [k \in 1..Len(chain) |-> chain[k].strike_price]

\* Python's round(n / d) for n >= 0, d > 0: halves go to the even neighbour
RoundHalfEven(n, d) ==
    LET q == n \div d
        r == n % d
    IN  IF 2 * r < d THEN q
        ELSE IF 2 * r > d THEN q + 1
        ELSE IF q % 2 = 0 THEN q ELSE q + 1

\* datetime.datetime.datetime.now() under "import datetime": the class
\* datetime.datetime has no attribute "datetime"
DatetimeNow == [raised |-> TRUE, error |-> "AttributeError"]

\* Preprocessor._extract_atm_and_ltps, for a chain with strikes and a spot
ExtractAtm(chain, spot) == Closest(Strikes(chain), spot)

ChainItem(chain, strike) ==
    chain[CHOOSE k \in 1..Len(chain) :
             /\ chain[k].strike_price = strike
             /\ \A j \in (k + 1)..Len(chain) : chain[j].strike_price # strike]

\* Preprocessor.get_current_snapshot followed by RegimeClassifier.classify
Snapshot(chain, spot, iv, regime, iv_rank) ==
    LET atm == ExtractAtm(chain, spot)
    IN  [spot |-> spot, atm_strike |-> atm,
         ce_ltp |-> ChainItem(chain, atm).ce_ltp,
         pe_ltp |-> ChainItem(chain, atm).pe_ltp,
         iv_estimates |-> iv, option_chain |-> chain,
         regime |-> regime, iv_rank |-> iv_rank]

(***************************************************************************)
(* Strategy inputs.                                                        *)
(***************************************************************************)
StrikeList == <<74900, 75000, 75100>>

\* an option chain: one item per strike, the same prices at every strike
Chain(ce, pe) == [k \in 1..Len(StrikeList) |->
                    [strike_price |-> StrikeList[k], ce_ltp |-> ce,
                     pe_ltp |-> pe]]

Spots == {75000, 75100}

\* iv_estimates: None until the chain has carried an implied volatility
Ivs == {NoneNum, 15, 30}

Regimes == {"CALM", "VOLATILE"}

\* rolling_straddle.roll_pct of the configuration
RollPcts == {0, ROLL_PCT}

\* a symbol the strategy never built
OrphanInstrument == <<"X">>

\* Price workloads: a quiet call price, one 30% above it and one beyond the
\* stop distance, two fill prices; a known volatility, a calm market and,
\* at the price beyond the stop distance, a volatile one too.
PriceInputs ==
    [snapshots   |-> {Snapshot(Chain(ce, 190), spot, 15, "CALM",
                               DefaultIvRank) :
                         ce \in {200, 260, 3300}, spot \in Spots}
                     \cup
                     {Snapshot(Chain(3300, 190), 75000, 15, "VOLATILE",
                               DefaultIvRank)},
     fill_prices |-> {200, 10300},
     orphans     |-> {},
     stoploss_per_lot |-> STOPLOSS_PER_LOT]

\* Wing workloads: every volatility and regime, one fill price, fills of a
\* symbol the strategy does not track.
WingInputs ==
    [snapshots   |-> {Snapshot(Chain(ce, 190), spot, iv, regime,
                               DefaultIvRank) :
                         ce \in {200, 260}, spot \in Spots, iv \in Ivs,
                         regime \in Regimes},
     fill_prices |-> {200},
     orphans     |-> {OrphanInstrument},
     stoploss_per_lot |-> STOPLOSS_PER_LOT]

\* Stop workloads: rolling_straddle.stoploss_per_lot is 0, so that the stop
\* bound is 0; the call price at, above and far above the fill price, a calm
\* and a volatile market.
StopInputs ==
    [snapshots   |-> {Snapshot(Chain(ce, 190), 75000, 15, regime,
                               DefaultIvRank) :
                         ce \in {200, 260, 3300}, regime \in Regimes},
     fill_prices |-> {200},
     orphans     |-> {},
     stoploss_per_lot |-> 0]

(***************************************************************************)
(* Strategy helpers.                                                       *)
(***************************************************************************)
\* a leg that is taken as filled at the price it was requested at
LegFilledOnRequest(instrument, requested) ==
    [instrument |-> instrument, side |-> "S", entry_price |-> requested,
     requested_price |-> requested, quantity |-> MESSAGE_LOTS, mtm |-> 0,
     state |-> "filled"]

Leg(instrument, requested) ==
    [instrument |-> instrument, side |-> "S", entry_price |-> NoneNum,
     requested_price |-> requested, quantity |-> MESSAGE_LOTS, mtm |-> 0,
     state |-> "requested"]

Order(action, instrument, lots) ==
    [action |-> action, instrument |-> instrument, lots |-> lots]

Returned(op, reason, orders, positions) ==
    [op |-> op, raised |-> FALSE, error |-> None, reason |-> reason,
     orders |-> orders, positions |-> positions]

Raised(op, error) ==
    [op |-> op, raised |-> TRUE, error |-> error, reason |-> None,
     orders |-> << >>, positions |-> << >>]

\* on_tick lines 95-109: the MTM written to each leg
LegMtm(pos, chain) ==
    LET curr_ltp == LtpForInstrument(chain, pos.instrument)
    IN  IF pos.entry_price = NoneNum \/ pos.entry_price = 0 THEN 0
        ELSE IF pos.side = "S"
        THEN (pos.entry_price - curr_ltp) * pos.quantity * LOT_SIZE
        ELSE (curr_ltp - pos.entry_price) * pos.quantity * LOT_SIZE

MarkToMarket(positions, chain) ==
    [k \in 1..Len(positions) |->
        [positions[k] EXCEPT !.mtm = LegMtm(positions[k], chain)]]

\* what a leg adds to ce_leg_mtm + pe_leg_mtm
Counted(pos) ==
    IF pos.entry_price = NoneNum \/ pos.entry_price = 0 THEN 0
    ELSE IF EndsWith(pos.instrument, "C") THEN pos.mtm
    ELSE IF EndsWith(pos.instrument, "P") THEN pos.mtm
    ELSE 0

RECURSIVE SumCounted(_)
SumCounted(positions) ==
    IF positions = << >> THEN 0
    ELSE Counted(positions[1]) + SumCounted(Tail(positions))

TotalMtm(positions) ==
    SumCounted(positions) + realized_ce_mtm + realized_pe_mtm

\* abs(change_pct) >= ROLL_PCT, lines 124-130
RollTriggered(ltp, baseline, pct) ==
    IF baseline = NoneNum \/ baseline = 0
    THEN Abs(ltp - ltp) * 100 >= pct
    ELSE Abs(ltp - baseline) * 100 >= pct * baseline

\* _should_have_otm_wings: formatting or comparing an iv of None raises
ShouldHaveOtmWings(snapshot) ==
    IF snapshot.iv_estimates = NoneNum
    THEN [raised |-> TRUE, value |-> FALSE]
    ELSE [raised |-> FALSE,
          value  |-> \/ snapshot.regime \in {"VOLATILE", "TRENDING_UP",
                                             "TRENDING_DOWN"}
                     \/ snapshot.iv_estimates > HIGH_IV
                     \/ snapshot.iv_rank > HIGH_IV_RANK]

\* _calculate_otm_distance
CalculateOtmDistance(spot, iv_pct, step) ==
    LET iv       == IF iv_pct <= 0 THEN DEFAULT_IV ELSE iv_pct
        distance == RoundHalfEven(spot * iv, 100 * step) * step
    IN  IF distance > step THEN distance ELSE step

\* _find_available_otm_strike
FindAvailableOtmStrike(chain, target_strike, opt_type, atm_strike) ==
    LET available == SelectSeq(Strikes(chain),
                               LAMBDA s : /\ s # 0
                                          /\ IF opt_type = "C"
                                             THEN s >= atm_strike
                                             ELSE s <= atm_strike)
    IN  IF available = << >> THEN target_strike
        ELSE Closest(available, target_strike)

Tracked(legs) == {legs[k].instrument : k \in 1..Len(legs)}

Wing(instrument, requested) ==
    [instrument |-> instrument, state |-> "requested",
     requested_price |-> requested, entry_price |-> NoneNum]

\* _add_otm_wings: the wing table and the buy requests
AddOtmWings(legs, snapshot) ==
    LET chain    == snapshot.option_chain
        atm      == snapshot.atm_strike
        distance == CalculateOtmDistance(snapshot.spot,
                                         snapshot.iv_estimates, STRIKE_STEP)
        ce_instr == BuildOptionSymbol(
                        FindAvailableOtmStrike(chain, atm + distance, "C",
                                               atm), "C")
        pe_instr == BuildOptionSymbol(
                        FindAvailableOtmStrike(chain, atm - distance, "P",
                                               atm), "P")
        add_ce   == ce_instr \notin Tracked(legs)
        legs1    == IF add_ce
                    THEN Append(legs, Wing(ce_instr,
                                    LtpForInstrument(chain, ce_instr)))
                    ELSE legs
        add_pe   == pe_instr \notin Tracked(legs1)
        legs2    == IF add_pe
                    THEN Append(legs1, Wing(pe_instr,
                                     LtpForInstrument(chain, pe_instr)))
                    ELSE legs1
    IN  [legs   |-> legs2,
         orders |-> (IF add_ce THEN <<Order("buy", ce_instr, MESSAGE_LOTS)>>
                     ELSE << >>) \o
                    (IF add_pe THEN <<Order("buy", pe_instr, MESSAGE_LOTS)>>
                     ELSE << >>)]

\* _remove_otm_wings: a sell for every tracked wing, the table emptied
RemoveOtmWings(legs) ==
    [legs   |-> << >>,
     orders |-> [k \in 1..Len(legs) |->
                   Order("sell", legs[k].instrument, MESSAGE_LOTS)]]

\* on_tick lines 174-186: the wing has moved by OTM_EXIT_PCT off its baseline
WingMoved(meta, chain) ==
    LET curr_ltp == LtpForInstrument(chain, meta.instrument)
        baseline == IF meta.entry_price = NoneNum
                    THEN IF meta.requested_price = NoneNum THEN 0
                         ELSE meta.requested_price
                    ELSE meta.entry_price
    IN  /\ baseline > 0
        /\ Abs(curr_ltp - baseline) * 100 >= OTM_EXIT_PCT * baseline

\* a wing check that asks for the sells and keeps tracking the wings
ExitMovedWingsKeepsTracking(legs, chain) ==
    [legs   |-> legs,
     orders |-> LET moved == SelectSeq(legs, LAMBDA m : WingMoved(m, chain))
                IN  [k \in 1..Len(moved) |->
                       Order("sell", moved[k].instrument, MESSAGE_LOTS)]]

\* on_tick lines 173-191: the wings kept and the sell requests
ExitMovedWings(legs, chain) ==
    [legs   |-> SelectSeq(legs, LAMBDA m : ~WingMoved(m, chain)),
     orders |-> LET moved == SelectSeq(legs, LAMBDA m : WingMoved(m, chain))
                IN  [k \in 1..Len(moved) |->
                       Order("sell", moved[k].instrument, MESSAGE_LOTS)]]

(***************************************************************************)
(* The strategy after __init__, and its operations.                        *)
(***************************************************************************)
InitStrategyWith(workloads) ==
    /\ roll_pct \in RollPcts
    /\ inputs \in workloads
    /\ open_positions = << >>
    /\ otm_legs = << >>
    /\ last_atm = NoneNum
    /\ last_roll_time = None
    /\ in_position = FALSE
    /\ has_otm_wings = FALSE
    /\ baseline_ce_ltp = NoneNum
    /\ baseline_pe_ltp = NoneNum
    /\ st_ret = Returned("init", None, << >>, << >>)
    /\ emitted = << >>
    /\ closing = << >>

InitStrategy == InitStrategyWith({PriceInputs, WingInputs})

\* can_enter
CanEnter(snapshot) ==
    /\ ~in_position
    /\ snapshot.ce_ltp > 0
    /\ snapshot.pe_ltp > 0
    /\ snapshot.regime \in {"CALM", "TRANSITION"}

\* enter, called by the control loop when no strategy is in position and
\* can_enter answers true
Enter(snapshot) ==
    /\ ~in_position
    /\ CanEnter(snapshot)
    /\ LET atm_strike == snapshot.atm_strike
           ce_instr   == BuildOptionSymbol(atm_strike, "C")
           pe_instr   == BuildOptionSymbol(atm_strike, "P")
       IN  /\ open_positions' = <<Leg(ce_instr, snapshot.ce_ltp),
                                  Leg(pe_instr, snapshot.pe_ltp)>>
           /\ last_atm' = atm_strike
           /\ IF DatetimeNow.raised
              THEN /\ st_ret' = Raised("enter", DatetimeNow.error)
                   /\ UNCHANGED <<last_roll_time, in_position,
                                  baseline_ce_ltp, baseline_pe_ltp>>
              ELSE /\ last_roll_time' = "now"
                   /\ in_position' = TRUE
                   /\ baseline_ce_ltp' = snapshot.ce_ltp
                   /\ baseline_pe_ltp' = snapshot.pe_ltp
                   /\ st_ret' = Returned("enter", None,
                                   <<Order("sell", ce_instr, MESSAGE_LOTS),
                                     Order("sell", pe_instr, MESSAGE_LOTS)>>,
                                   << >>)
    /\ UNCHANGED <<inputs, roll_pct, otm_legs, has_otm_wings>>

\* on_tick from line 157 on: the wings.  The new wing table, the new flag
\* and what the call gives back.
WingSteps(snapshot) ==
    LET should == ShouldHaveOtmWings(snapshot)
        added  == AddOtmWings(otm_legs, snapshot)
        gone   == RemoveOtmWings(otm_legs)
        adds   == should.value /\ ~has_otm_wings
        drops  == ~should.value /\ has_otm_wings
        legs1  == IF adds THEN added.legs ELSE IF drops THEN gone.legs
                  ELSE otm_legs
        moved  == ExitMovedWings(legs1, snapshot.option_chain)
    IN  IF should.raised
        THEN [legs |-> otm_legs, has |-> has_otm_wings,
              ret |-> Raised("on_tick", "TypeError")]
        ELSE IF adds /\ added.orders # << >>
        THEN [legs |-> added.legs, has |-> TRUE,
              ret |-> Returned("on_tick", "add_otm", added.orders, << >>)]
        ELSE IF drops /\ gone.orders # << >>
        THEN [legs |-> gone.legs, has |-> FALSE,
              ret |-> Returned("on_tick", "remove_otm", gone.orders, << >>)]
        ELSE IF moved.orders # << >>
        THEN [legs |-> moved.legs, has |-> has_otm_wings,
              ret |-> Returned("on_tick", "otm_exit", moved.orders, << >>)]
        ELSE [legs |-> moved.legs, has |-> has_otm_wings,
              ret |-> Returned("on_tick", None, << >>, << >>)]

\* lines 113 and 117
StopHit(total_mtm) ==
    total_mtm <= 0 - inputs.stoploss_per_lot * MESSAGE_LOTS * LOT_SIZE

TargetHit(total_mtm) ==
    total_mtm >= TARGET_PER_LOT * MESSAGE_LOTS * LOT_SIZE

\* lines 126-133: which sides roll
BufferOk(snapshot) ==
    IF last_atm # NoneNum /\ last_atm # 0
    THEN Abs(snapshot.spot - last_atm) >= BUFFER
    ELSE TRUE

AtmChanged(snapshot) == snapshot.atm_strike # last_atm

CeShouldRoll(snapshot) ==
    /\ RollTriggered(snapshot.ce_ltp, baseline_ce_ltp, roll_pct)
    /\ BufferOk(snapshot)
    /\ AtmChanged(snapshot)

PeShouldRoll(snapshot) ==
    /\ RollTriggered(snapshot.pe_ltp, baseline_pe_ltp, roll_pct)
    /\ BufferOk(snapshot)
    /\ AtmChanged(snapshot)

RollOrders(snapshot) ==
    (IF CeShouldRoll(snapshot)
     THEN <<Order("buy", BuildOptionSymbol(last_atm, "C"), MESSAGE_LOTS),
            Order("sell", BuildOptionSymbol(snapshot.atm_strike, "C"),
                  MESSAGE_LOTS)>>
     ELSE << >>) \o
    (IF PeShouldRoll(snapshot)
     THEN <<Order("buy", BuildOptionSymbol(last_atm, "P"), MESSAGE_LOTS),
            Order("sell", BuildOptionSymbol(snapshot.atm_strike, "P"),
                  MESSAGE_LOTS)>>
     ELSE << >>)

\* on_tick(snapshot, position), called by the control loop for each open
\* position
OnTick(snapshot) ==
    /\ LET marked == MarkToMarket(open_positions, snapshot.option_chain)
           total  == TotalMtm(marked)
           wings  == WingSteps(snapshot)
       IN  /\ open_positions' = marked
           /\ IF StopHit(total) \/ TargetHit(total)
              THEN /\ st_ret' = Returned("on_tick",
                                   IF StopHit(total) THEN "stoploss"
                                   ELSE "target", << >>, marked)
                   /\ UNCHANGED <<otm_legs, has_otm_wings, last_atm,
                                  last_roll_time, baseline_ce_ltp,
                                  baseline_pe_ltp>>
              ELSE IF last_roll_time # None /\ DatetimeNow.raised
              THEN \* line 127
                   /\ st_ret' = Raised("on_tick", DatetimeNow.error)
                   /\ UNCHANGED <<otm_legs, has_otm_wings, last_atm,
                                  last_roll_time, baseline_ce_ltp,
                                  baseline_pe_ltp>>
              ELSE IF CeShouldRoll(snapshot) \/ PeShouldRoll(snapshot)
              THEN /\ last_atm' = snapshot.atm_strike
                   /\ IF DatetimeNow.raised
                      THEN \* line 152
                           /\ st_ret' = Raised("on_tick", DatetimeNow.error)
                           /\ UNCHANGED <<last_roll_time, baseline_ce_ltp,
                                          baseline_pe_ltp>>
                      ELSE /\ last_roll_time' = "now"
                           /\ baseline_ce_ltp' = snapshot.ce_ltp
                           /\ baseline_pe_ltp' = snapshot.pe_ltp
                           /\ st_ret' = Returned("on_tick", "roll",
                                                 RollOrders(snapshot), << >>)
                   /\ UNCHANGED <<otm_legs, has_otm_wings>>
              ELSE /\ otm_legs' = wings.legs
                   /\ has_otm_wings' = wings.has
                   /\ st_ret' = wings.ret
                   /\ UNCHANGED <<last_atm, last_roll_time, baseline_ce_ltp,
                                  baseline_pe_ltp>>
    /\ UNCHANGED <<inputs, roll_pct, in_position>>

\* an exit that forgets to clear the wing table
ExitKeepsWings ==
    /\ st_ret' = Returned("exit", None,
                    [k \in 1..Len(open_positions) |->
                       Order("buy", open_positions[k].instrument,
                             open_positions[k].quantity)],
                    << >>)
    /\ open_positions' = << >>
    /\ in_position' = FALSE
    /\ has_otm_wings' = FALSE
    /\ baseline_ce_ltp' = NoneNum
    /\ baseline_pe_ltp' = NoneNum
    /\ UNCHANGED <<inputs, roll_pct, last_atm, last_roll_time, otm_legs>>

\* exit(position, exits)
Exit ==
    /\ st_ret' = Returned("exit", None,
                    [k \in 1..Len(open_positions) |->
                       Order("buy", open_positions[k].instrument,
                             open_positions[k].quantity)] \o
                    [k \in 1..Len(otm_legs) |->
                       Order("sell", otm_legs[k].instrument, MESSAGE_LOTS)],
                    << >>)
    /\ open_positions' = << >>
    /\ in_position' = FALSE
    /\ otm_legs' = << >>
    /\ has_otm_wings' = FALSE
    /\ baseline_ce_ltp' = NoneNum
    /\ baseline_pe_ltp' = NoneNum
    /\ UNCHANGED <<inputs, roll_pct, last_atm, last_roll_time>>

FirstLeg(positions, instrument) ==
    CHOOSE k \in 1..Len(positions) :
       /\ positions[k].instrument = instrument
       /\ \A j \in 1..(k - 1) : positions[j].instrument # instrument

\* RollingStraddleStrategy.confirm_fill(instrument, fill_price)
StrategyConfirmFill(instrument, fill_price) ==
    LET is_leg  == \E k \in 1..Len(open_positions) :
                      open_positions[k].instrument = instrument
        is_wing == instrument \in Tracked(otm_legs)
    IN  /\ open_positions' =
              IF is_leg
              THEN [open_positions EXCEPT
                      ![FirstLeg(open_positions, instrument)] =
                          [@ EXCEPT !.entry_price = fill_price,
                                    !.state = "filled"]]
              ELSE open_positions
        /\ otm_legs' =
              IF is_wing
              THEN [k \in 1..Len(otm_legs) |->
                      IF otm_legs[k].instrument = instrument
                      THEN [otm_legs[k] EXCEPT !.state = "filled",
                                               !.entry_price = fill_price]
                      ELSE otm_legs[k]]
              ELSE IF ~is_leg
              THEN Append(otm_legs,
                          [instrument |-> instrument, state |-> "filled",
                           entry_price |-> fill_price,
                           requested_price |-> NoneNum])
              ELSE otm_legs
        /\ st_ret' = Returned("confirm_fill", None, << >>, << >>)
        /\ UNCHANGED <<inputs, roll_pct, last_atm, last_roll_time, in_position,
                       has_otm_wings, baseline_ce_ltp, baseline_pe_ltp>>

FillInstruments ==
    {open_positions[k].instrument : k \in 1..Len(open_positions)}
    \cup Tracked(otm_legs) \cup inputs.orphans

EnterCall == \E snapshot \in inputs.snapshots : Enter(snapshot)

OnTickCall ==
    /\ open_positions # << >>
    /\ \E snapshot \in inputs.snapshots : OnTick(snapshot)

StrategyConfirmFillCall ==
    \E instrument \in FillInstruments, fill_price \in inputs.fill_prices :
       StrategyConfirmFill(instrument, fill_price)

\* exit is called on a stop or target action, at a scheduled exit and in
\* emergency mode, in each case for a strategy with open positions
ExitCall == open_positions # << >> /\ Exit

-----------------------------------------------------------------------------
(***************************************************************************)
(* The risk manager (RiskManager) and the exit schedule of the control     *)
(* loop.  Dates are counted in days and times of day in schedule slots.    *)
(* The risk manager is driven through its public methods: by the control   *)
(* loop, and by its owner between two passes of the loop.                  *)
(***************************************************************************)
Dates == 1..MaxDate

Tods == {0, 1, 2}

\* global.eod_exit_schedule as processed by __init__: an early exit and the
\* final one
TwoEntrySchedule ==
    <<[id |-> 0, time |-> 1, final |-> FALSE],
      [id |-> 1, time |-> 2, final |-> TRUE]>>

\* the account of the default configuration and one a hundred times smaller
Equities == {ACCOUNT_EQUITY, ACCOUNT_EQUITY \div 100}

\* the loss that reaches max_daily_loss of the equity, and a gain
PnlReports(equity) ==
    {0 - (MAX_DAILY_LOSS_PCT * equity) \div 100, equity \div 100}

PnlOf(pnl_map, today) == IF today \in DOMAIN pnl_map THEN pnl_map[today] ELSE 0

\* the test of update_pnl (line 41) and check_daily_loss_limit (line 58)
LossLimitReached(pnl, equity) ==
    /\ pnl < 0
    /\ Abs(pnl) * 100 >= MAX_DAILY_LOSS_PCT * equity

\* update_pnl: the new map, the new flag and the value returned
UpdatePnl(pnl_map, flag, equity, today, pnl) ==
    LET total == PnlOf(pnl_map, today) + pnl
    IN  [daily_pnl |-> Put(pnl_map, today, total),
         daily_limit_breached |-> flag \/ LossLimitReached(total, equity),
         value |-> LossLimitReached(total, equity)]

\* a check that never finds the limit breached
NoDailyLossLimit(pnl_map, flag, equity, today) ==
    [daily_limit_breached |-> flag, value |-> TRUE]

\* check_daily_loss_limit: the new flag and the value returned
CheckDailyLossLimit(pnl_map, flag, equity, today) ==
    LET reached == flag \/ LossLimitReached(PnlOf(pnl_map, today), equity)
    IN  [daily_limit_breached |-> reached, value |-> ~reached]

\* check_exposure_limit
CheckExposureLimit(proposed_exposure, equity) ==
    ~((current_exposure + proposed_exposure) * 100
         > MAX_OPEN_EXPOSURE_PCT * equity)

\* check_margin_requirement returns True on every path
CheckMarginRequirement(orders) == TRUE

\* reset_daily_tracking
ResetDailyTracking(pnl_map, flag, today) ==
    IF today \notin DOMAIN pnl_map
    THEN [daily_pnl |-> Put(pnl_map, today, 0),
          daily_limit_breached |-> FALSE]
    ELSE [daily_pnl |-> pnl_map, daily_limit_breached |-> flag]

\* compute_size: the new map and flag, and whether a sizing is returned
\* (None otherwise)
ComputeSize(pnl_map, flag, emergency, equity, today) ==
    LET reset == ResetDailyTracking(pnl_map, flag, today)
        loss  == CheckDailyLossLimit(reset.daily_pnl,
                                     reset.daily_limit_breached, equity,
                                     today)
    IN  IF emergency
        THEN [daily_pnl |-> reset.daily_pnl,
              daily_limit_breached |-> reset.daily_limit_breached,
              sized |-> FALSE]
        ELSE [daily_pnl |-> reset.daily_pnl,
              daily_limit_breached |-> loss.daily_limit_breached,
              sized |-> /\ loss.value
                        /\ CheckExposureLimit(STOPLOSS_PER_LOT * MESSAGE_LOTS,
                                              equity)]

InitRisk(equities) ==
    /\ account_equity \in equities
    /\ daily_pnl = << >>
    /\ daily_limit_breached = FALSE
    /\ emergency_mode = FALSE

\* _should_run_schedule_entry
ShouldRunScheduleEntry(sched_item, now_dt, executed) ==
    LET today        == now_dt.date
        executed_ids == IF today \in DOMAIN executed THEN executed[today]
                        ELSE {}
    IN  /\ sched_item.id \notin executed_ids
        /\ ~(now_dt.tod < sched_item.time)

\* a marker that forgets the entry
MarkNothingExecuted(sched_item, now_dt, executed) == executed

\* _mark_schedule_executed
MarkScheduleExecuted(sched_item, now_dt, executed) ==
    LET today        == now_dt.date
        executed_ids == IF today \in DOMAIN executed THEN executed[today]
                        ELSE {}
        marked       == Put(executed, today, executed_ids \cup {sched_item.id})
    IN  [d \in DOMAIN marked \cap {today, today - 1} |-> marked[d]]

\* run lines 155-167: the schedule entries from the k-th on.  The markers,
\* the ids that ran a forced exit, and whether a final entry ran.
RECURSIVE ScheduleLoop(_, _, _, _, _)
ScheduleLoop(schedule, k, now_dt, executed, ran) ==
    IF k > Len(schedule)
    THEN [executed |-> executed, ran |-> ran, final |-> FALSE]
    ELSE IF ShouldRunScheduleEntry(schedule[k], now_dt, executed)
    THEN LET marked == MarkScheduleExecuted(schedule[k], now_dt, executed)
         IN  IF schedule[k].final
             THEN [executed |-> marked, ran |-> Append(ran, schedule[k].id),
                   final |-> TRUE]
             ELSE ScheduleLoop(schedule, k + 1, now_dt, marked,
                               Append(ran, schedule[k].id))
    ELSE ScheduleLoop(schedule, k + 1, now_dt, executed, ran)

\* the control loop before run is called, with the given schedule
InitRunWith(schedules) ==
    /\ processed_schedule \in schedules
    /\ executed_for_date = << >>
    /\ run_pc = "top"
    /\ run_now = [date |-> 1, tod |-> 0]
    /\ run_entry = "none"
    /\ run_exit = "none"
    /\ fired = << >>

(***************************************************************************)
(* Regime classifier (RegimeClassifier).  The indicators are numbers on a  *)
(* fixed scale: percentages and index points in units, bb_width in         *)
(* thousandths, sma_slope in tenths of a percent.  What the pandas         *)
(* indicator helpers compute from the candles is an input: a number or     *)
(* NaN.                                                                    *)
(***************************************************************************)
NaN == 0 - 999

\* float comparisons: false when a side is NaN
Gt(a, b) == a # NaN /\ b # NaN /\ a > b
Lt(a, b) == a # NaN /\ b # NaN /\ a < b

\* _classify_regime, lines 237-239
HighVolatility(metrics) ==
    \/ Gt(metrics.atr_pct, ATR_HIGH_THRESHOLD)
    \/ Gt(metrics.bb_width, BB_WIDTH_HIGH_THRESHOLD)
    \/ Gt(metrics.iv_rank, IV_RANK_HIGH)

\* lines 242-243
StrongTrend(metrics) == Gt(metrics.adx, ADX_STRONG_THRESHOLD)
ModerateTrend(metrics) == Gt(metrics.adx, ADX_TRENDING_THRESHOLD)

\* lines 246-247
Uptrend(metrics) ==
    /\ Gt(metrics.sma_slope, SMA_SLOPE_THRESHOLD)
    /\ Gt(metrics.plus_di, metrics.minus_di)
Downtrend(metrics) ==
    /\ metrics.sma_slope # NaN
    /\ metrics.sma_slope < 0 - SMA_SLOPE_THRESHOLD
    /\ Gt(metrics.minus_di, metrics.plus_di)

\* lines 250-252: below half of the thresholds
LowVolatility(metrics) ==
    /\ metrics.atr_pct # NaN /\ 2 * metrics.atr_pct < ATR_HIGH_THRESHOLD
    /\ metrics.bb_width # NaN
    /\ 2 * metrics.bb_width < BB_WIDTH_HIGH_THRESHOLD
    /\ Lt(metrics.iv_rank, IV_RANK_LOW)

\* a classification that calls every high volatility VOLATILE
ClassifyVolatileFirst(metrics) ==
    IF HighVolatility(metrics) THEN "VOLATILE"
    ELSE IF StrongTrend(metrics) /\ Uptrend(metrics) THEN "TRENDING_UP"
    ELSE IF StrongTrend(metrics) /\ Downtrend(metrics) THEN "TRENDING_DOWN"
    ELSE IF LowVolatility(metrics) /\ ~ModerateTrend(metrics) THEN "CALM"
    ELSE "TRANSITION"

\* _classify_regime, lines 255-264
ClassifyRegime(metrics) ==
    IF HighVolatility(metrics) /\ ~StrongTrend(metrics) THEN "VOLATILE"
    ELSE IF StrongTrend(metrics) /\ Uptrend(metrics) THEN "TRENDING_UP"
    ELSE IF StrongTrend(metrics) /\ Downtrend(metrics) THEN "TRENDING_DOWN"
    ELSE IF LowVolatility(metrics) /\ ~ModerateTrend(metrics) THEN "CALM"
    ELSE "TRANSITION"

\* "0 if pd.isna(x) else x"
OrDefault(x, default) == IF x = NaN THEN default ELSE x

\* classify, lines 55-109: the metrics of a snapshot.  ohlc_len and iv_len
\* are the lengths of ohlc_df and iv_series, NoneNum when the snapshot has
\* none; ind holds what the indicator helpers return.
ClassifyMetrics(snap) ==
    LET enough(period) == snap.ohlc_len # NoneNum /\ snap.ohlc_len >= period
        ind == snap.ind
    IN  [atr_pct    |-> IF enough(ATR_PERIOD)
                        THEN OrDefault(ind.atr_pct, 0) ELSE 0,
         adx        |-> IF enough(ADX_PERIOD + 1)
                        THEN OrDefault(ind.adx, 0) ELSE 0,
         plus_di    |-> IF enough(ADX_PERIOD + 1)
                        THEN OrDefault(ind.plus_di, 0) ELSE 0,
         minus_di   |-> IF enough(ADX_PERIOD + 1)
                        THEN OrDefault(ind.minus_di, 0) ELSE 0,
         bb_width   |-> IF enough(BB_PERIOD)
                        THEN OrDefault(ind.bb_width, 0) ELSE 0,
         sma_slope  |-> IF enough(SMA_PERIOD + SMA_LOOKBACK)
                        THEN OrDefault(ind.sma_slope, 0) ELSE 0,
         iv_rank    |-> IF snap.iv_len # NoneNum /\ snap.iv_len >= IV_MIN_LEN
                        THEN OrDefault(ind.iv_rank, DefaultIvRank)
                        ELSE DefaultIvRank,
         current_iv |-> OrDefault(snap.iv_estimates, 0)]

\* classify: the dict returned
Classify(snap) ==
    [op |-> "classify", regime |-> ClassifyRegime(ClassifyMetrics(snap)),
     regime_metrics |-> ClassifyMetrics(snap)]

\* metrics on and around every threshold
MetricSets ==
    [atr_pct    : {NaN, 0, 1, 2, 3},
     adx        : {NaN, 0, 25, 26, 40, 41},
     plus_di    : {10, 20},
     minus_di   : {10, 20},
     bb_width   : {0, 25, 50, 51},
     sma_slope  : {0 - 6, 0 - 5, 0, 5, 6},
     iv_rank    : {29, 30, 70, 71},
     current_iv : {20}]

\* snapshots with no, empty, short and long enough candle and IV data, and
\* indicator results that are calm, volatile, trending or NaN
ClassifierSnapshots ==
    [ohlc_len     : {NoneNum, 0, ATR_PERIOD, ADX_PERIOD + 1, BB_PERIOD,
                     SMA_PERIOD + SMA_LOOKBACK},
     iv_len       : {NoneNum, 0, IV_MIN_LEN},
     iv_estimates : {NaN, 20},
     ind          : [atr_pct   : {NaN, 0, 3},
                     adx       : {NaN, 0, 41},
                     plus_di   : {NaN, 20},
                     minus_di  : {10},
                     bb_width  : {NaN, 0, 51},
                     sma_slope : {NaN, 0 - 6, 6},
                     iv_rank   : {NaN, 29, 71}]]

\* no call of the classifier yet
InitClassifier ==
    /\ cls_arg = {}
    /\ cls_ret = {}

\* a classifier that is about to be called once, with any of the metrics
\* or snapshots
InitClassifierCalls ==
    /\ cls_arg \in {{[op |-> "_classify_regime", arg |-> metrics]} :
                        metrics \in MetricSets}
                   \cup
                   {{[op |-> "classify", arg |-> snap]} :
                        snap \in ClassifierSnapshots}
    /\ cls_ret = {}

\* RegimeClassifier._classify_regime(metrics)
ClassifyRegimeCall ==
    /\ cls_ret = {}
    /\ \E call \in cls_arg :
          /\ call.op = "_classify_regime"
          /\ cls_ret' = {[op |-> "_classify_regime",
                          regime |-> ClassifyRegime(call.arg),
                          regime_metrics |-> call.arg]}
    /\ UNCHANGED cls_arg

\* RegimeClassifier.classify(snapshot) of a snapshot that is not empty
ClassifyCall ==
    /\ cls_ret = {}
    /\ \E call \in cls_arg :
          /\ call.op = "classify"
          /\ cls_ret' = {Classify(call.arg)}
    /\ UNCHANGED cls_arg

\* a risk manager, a control loop and a classifier that are never called
InitIdle ==
    InitRisk({ACCOUNT_EQUITY}) /\ InitRunWith({<< >>}) /\ InitClassifier

-----------------------------------------------------------------------------
(***************************************************************************)
(* Specifications.  Spec runs the gateway beside a strategy that is never  *)
(* called, SpecStrategy runs the strategy beside a gateway that is never   *)
(* called.                                                                 *)
(***************************************************************************)
InitGateway == InitGatewayWith(Workloads)

\* no tick is managing
InitLoop ==
    /\ tick_snapshot = {}
    /\ tick_left = 0
    /\ tick_copy = << >>
    /\ tick_actions = << >>

Init == InitGateway /\ InitStrategy /\ roll_pct = ROLL_PCT
                    /\ inputs = PriceInputs /\ InitLoop /\ InitIdle

Next ==
    \/ Tick /\ UNCHANGED <<stVars, loopVars, riskVars, runVars, clsVars, netVars>>
    \/ SendOrdersCall /\ UNCHANGED <<stVars, loopVars, riskVars, runVars, clsVars, netVars>>
    \/ NextOrderStep /\ UNCHANGED <<stVars, loopVars, riskVars, runVars, clsVars, netVars>>
    \/ AttemptStep /\ UNCHANGED <<stVars, loopVars, riskVars, runVars, clsVars, netVars>>
    \/ EndOrder /\ UNCHANGED <<stVars, loopVars, riskVars, runVars, clsVars, netVars>>
    \/ FinishBatchStep /\ UNCHANGED <<stVars, loopVars, riskVars, runVars, clsVars, netVars>>
    \/ ConfirmFillCall /\ UNCHANGED <<stVars, loopVars, riskVars, runVars, clsVars, netVars>>
    \/ PollPendingCall /\ UNCHANGED <<stVars, loopVars, riskVars, runVars, clsVars, netVars>>

Spec == Init /\ [][Next]_vars

\* The process is started again: ExecutionAdapter.__init__ over the files
\* the gateway before it wrote, with the configuration and the callback it
\* was given.  The breaker starts closed, the ledgers are what
\* _load_persisted_orders reads; the callback log is the history of the
\* callback's runs and goes on.
Restart ==
    /\ pc = "idle"
    /\ \A key \in DOMAIN callback_log : callback_log[key] < MaxCallbackRuns
    /\ consecutive_failures' = 0
    /\ circuit_open_time' = NoneNum
    /\ circuit_state' = "CLOSED"
    /\ LET loaded == LoadPersistedOrders(pending_snapshot, filled_snapshot)
       IN  /\ pending_orders' = loaded.pending
           /\ filled_orders' = loaded.filled
           /\ pending_keys' = snapshot_keys
    /\ ret' = [op |-> "init", at |-> 76, raised |-> FALSE, value |-> << >>]
    /\ UNCHANGED <<gwConfig, gwLocals, pending_snapshot, snapshot_keys,
                   filled_snapshot, now, pc, callback_log, sent_batches>>

NextRestart ==
    \/ Next
    \/ Restart /\ UNCHANGED <<stVars, loopVars, riskVars, runVars, clsVars,
                              netVars>>

SpecRestart == Init /\ [][NextRestart]_vars

InitStrategyOnly ==
    /\ InitStrategy
    /\ InitLoop
    /\ InitIdle
    /\ InitGatewayWith({[config |-> DefaultConfig, fill_callback |-> "none",
                         env |-> KeyEnv]})

NextStrategyOnly ==
    \/ EnterCall /\ UNCHANGED <<gwVars, loopVars, riskVars, runVars, clsVars, netVars>>
    \/ OnTickCall /\ UNCHANGED <<gwVars, loopVars, riskVars, runVars, clsVars, netVars>>
    \/ ExitCall /\ UNCHANGED <<gwVars, loopVars, riskVars, runVars, clsVars, netVars>>
    \/ StrategyConfirmFillCall /\ UNCHANGED <<gwVars, loopVars, riskVars, runVars, clsVars, netVars>>

SpecStrategy == InitStrategyOnly /\ [][NextStrategyOnly]_vars

\* the lots of an order, signed: bought +, sold -
Signed(order) == IF order.action = "buy" THEN order.lots ELSE 0 - order.lots

\* the history after a call has returned its orders
RECURSIVE Emit(_, _)
Emit(net, orders) ==
    IF orders = << >> THEN net
    ELSE LET o    == orders[1]
             held == IF o.instrument \in DOMAIN net THEN net[o.instrument]
                     ELSE 0
         IN  Emit(Put(net, o.instrument, held + Signed(o)), Tail(orders))

\* One life of a strategy: enter, ticks and fills of what it tracks, and a
\* final exit, with the orders every call returns added up.
StrategyLives == st_ret.op # "exit"

Emitting(call) ==
    /\ StrategyLives
    /\ call
    /\ emitted' = Emit(emitted, st_ret'.orders)
    /\ UNCHANGED <<gwVars, loopVars, riskVars, runVars, clsVars, closing>>

TrackedFillCall ==
    \E instrument \in FillInstruments \ inputs.orphans,
       fill_price \in inputs.fill_prices :
       StrategyConfirmFill(instrument, fill_price)

NextNet ==
    \/ Emitting(EnterCall)
    \/ Emitting(OnTickCall)
    \/ Emitting(TrackedFillCall)
    \/ Emitting(ExitCall)

SpecNet == InitStrategyOnly /\ [][NextNet]_vars

(***************************************************************************)
(* The control loop (MasterOrchestrator.run) around one strategy.  One     *)
(* pass of the loop is a tick: the entry part, then the management part,   *)
(* which visits the copy of the open positions taken at its start and      *)
(* calls on_tick once for each entry.  An exception of the strategy ends   *)
(* the tick.  Fills and scheduled exits arrive between ticks.              *)
(***************************************************************************)
\* lines 196-229: the strategy is asked to enter; the management part of
\* the same tick follows when enter returns
TickEntry ==
    /\ tick_left = 0
    /\ \E snapshot \in inputs.snapshots :
          /\ Enter(snapshot)
          /\ tick_snapshot' = IF st_ret'.raised THEN {} ELSE {snapshot}
          /\ tick_left' = IF st_ret'.raised THEN 0 ELSE Len(open_positions')
          /\ tick_copy' = IF st_ret'.raised THEN << >> ELSE open_positions'
    /\ tick_actions' = << >>

\* lines 232-234 of a tick that does not enter: positions_copy is taken
TickManage ==
    /\ tick_left = 0
    /\ open_positions # << >>
    /\ \E snapshot \in inputs.snapshots :
          /\ ~CanEnter(snapshot)
          /\ tick_snapshot' = {snapshot}
    /\ tick_left' = Len(open_positions)
    /\ tick_copy' = open_positions
    /\ tick_actions' = << >>
    /\ UNCHANGED stVars

\* lines 235-258: one entry of positions_copy.  on_tick is called and its
\* action dispatched; a stop or target action is dispatched by calling
\* exit, whose effect replaces the marked positions on_tick left, and the
\* mtm of the entry of positions_copy is reported to the risk manager.
TickPosition ==
    /\ tick_left > 0
    /\ \E snapshot \in tick_snapshot :
          LET total == TotalMtm(MarkToMarket(open_positions,
                                             snapshot.option_chain))
              pos   == tick_copy[Len(tick_copy) - tick_left + 1]
              pnl   == UpdatePnl(daily_pnl, daily_limit_breached,
                                 account_equity, run_now.date, pos.mtm)
          IN  IF StopHit(total) \/ TargetHit(total)
              THEN /\ Exit
                   /\ tick_left' = tick_left - 1
                   /\ tick_actions' =
                         Append(tick_actions,
                                IF StopHit(total) THEN "stoploss"
                                ELSE "target")
                   /\ daily_pnl' = pnl.daily_pnl
                   /\ daily_limit_breached' = pnl.daily_limit_breached
                   /\ emergency_mode' = (emergency_mode \/ pnl.value)
                   /\ UNCHANGED account_equity
              ELSE /\ UNCHANGED riskVars
                   /\ OnTick(snapshot)
                   /\ tick_left' = IF st_ret'.raised THEN 0
                                   ELSE tick_left - 1
                   /\ tick_actions' =
                         IF st_ret'.raised \/ st_ret'.reason = None
                         THEN tick_actions
                         ELSE Append(tick_actions, st_ret'.reason)
    /\ tick_snapshot' = IF tick_left' = 0 THEN {} ELSE tick_snapshot
    /\ tick_copy' = IF tick_left' = 0 THEN << >> ELSE tick_copy

\* a fill reported to the strategy between two ticks
TickFill == tick_left = 0 /\ StrategyConfirmFillCall /\ UNCHANGED loopVars

\* lines 155-167 and _perform_eod_exit: a scheduled exit
TickEodExit == tick_left = 0 /\ ExitCall /\ UNCHANGED loopVars

InitLoopOnly ==
    /\ InitStrategyOnly
    /\ inputs = WingInputs

NextLoop ==
    \/ TickEntry /\ UNCHANGED <<gwVars, riskVars, runVars, clsVars, netVars>>
    \/ TickManage /\ UNCHANGED <<gwVars, riskVars, runVars, clsVars, netVars>>
    \/ TickPosition /\ UNCHANGED <<gwVars, runVars, clsVars, netVars>>
    \/ TickFill /\ UNCHANGED <<gwVars, riskVars, runVars, clsVars, netVars>>
    \/ TickEodExit /\ UNCHANGED <<gwVars, riskVars, runVars, clsVars, netVars>>

SpecLoop == InitLoopOnly /\ [][NextLoop]_vars

\* the same loop around a strategy whose stop distance is 0
InitStop ==
    /\ InitStrategyWith({StopInputs})
    /\ roll_pct = ROLL_PCT
    /\ InitLoop
    /\ InitIdle
    /\ InitGatewayWith({[config |-> DefaultConfig, fill_callback |-> "none",
                         env |-> KeyEnv]})

SpecStop == InitStop /\ [][NextLoop]_vars

(***************************************************************************)
(* MasterOrchestrator.run as a whole.  A pass reads the clock, runs the    *)
(* emergency check and the exit schedule (top), polls a snapshot and runs  *)
(* the entry part (poll), then manages the open positions (manage).        *)
(***************************************************************************)
\* the clock does not run backwards
LaterTimes(now_dt) ==
    {t \in [date : Dates, tod : Tods] :
        \/ t.date > now_dt.date
        \/ t.date = now_dt.date /\ t.tod >= now_dt.tod}

\* the forced exits counted: one more for every id that ran on the date
RECURSIVE CountRuns(_, _, _)
CountRuns(counts, date, ran) ==
    IF ran = << >> THEN counts
    ELSE CountRuns(Put(counts, <<date, Head(ran)>>,
                       Count(counts, <<date, Head(ran)>>) + 1),
                   date, Tail(ran))

\* a risk manager that never reports emergency mode
NeverEmergencyMode == FALSE

\* is_emergency_mode
IsEmergencyMode == emergency_mode

\* _perform_eod_exit: a strategy with open positions is asked for its exit
\* orders, which are sent under the tag; what send_orders answers (any_ok:
\* an order was delivered) is logged and not looked at
PerformEodExit(tag_prefix) ==
    IF open_positions # << >>
    THEN /\ Exit
         /\ tick_actions' = <<tag_prefix>>
         /\ \E any_ok \in BOOLEAN :
               closing' = <<[tag_prefix |-> tag_prefix, any_ok |-> any_ok]>>
    ELSE UNCHANGED <<stVars, closing>> /\ tick_actions' = << >>

\* lines 147-152
RunEmergency ==
    /\ run_pc = "top"
    /\ IsEmergencyMode
    /\ run_now' \in LaterTimes(run_now)
    /\ PerformEodExit("emergency-exit")
    /\ run_pc' = "stopped"
    /\ run_exit' = "emergency"
    /\ UNCHANGED <<processed_schedule, executed_for_date, run_entry, fired,
                   riskVars, tick_snapshot, tick_left, tick_copy>>

\* lines 145-167 outside emergency mode
RunSchedule ==
    /\ run_pc = "top"
    /\ ~IsEmergencyMode
    /\ \E now_dt \in LaterTimes(run_now) :
          LET loop == ScheduleLoop(processed_schedule, 1, now_dt,
                                   executed_for_date, << >>)
          IN  /\ run_now' = now_dt
              /\ executed_for_date' = loop.executed
              /\ fired' = CountRuns(fired, now_dt.date, loop.ran)
              /\ IF loop.ran # << >> THEN PerformEodExit("exit-eod")
                 ELSE UNCHANGED <<stVars, closing>> /\ tick_actions' = << >>
              /\ run_pc' = IF loop.final THEN "stopped" ELSE "poll"
              /\ run_exit' = IF loop.final THEN "final" ELSE run_exit
    /\ run_entry' = "none"
    /\ UNCHANGED <<processed_schedule, riskVars, tick_snapshot, tick_left,
                   tick_copy>>

\* lines 170-173, and 264-266 for get_current_snapshot: no snapshot
RunNoSnapshot ==
    /\ run_pc = "poll"
    /\ run_pc' = "top"
    /\ UNCHANGED <<processed_schedule, executed_for_date, run_now,
                   run_entry, run_exit, fired, stVars, loopVars, riskVars>>

\* lines 232-234: positions_copy is taken
ManageFrom(snapshot, positions) ==
    /\ tick_left' = Len(positions)
    /\ tick_copy' = positions
    /\ tick_snapshot' = IF positions = << >> THEN {} ELSE {snapshot}
    /\ run_pc' = IF positions = << >> THEN "top" ELSE "manage"

\* an entry that goes on without a sizing
EntryIgnoresSizing(chosen, sized) == chosen

\* lines 212-218: a strategy was chosen and compute_size returned a sizing
EntryAllowed(chosen, sized) == chosen /\ sized

\* lines 175-234: the gates and the entry part
RunEntry ==
    /\ run_pc = "poll"
    /\ \E snapshot \in inputs.snapshots :
          LET today  == run_now.date
              loss   == CheckDailyLossLimit(daily_pnl, daily_limit_breached,
                                            account_equity, today)
              chosen == loss.value /\ ~in_position /\ CanEnter(snapshot)
              size   == ComputeSize(daily_pnl, loss.daily_limit_breached,
                                    emergency_mode, account_equity, today)
          IN  IF EntryAllowed(chosen, size.sized)
              THEN /\ Enter(snapshot)
                   /\ daily_pnl' = size.daily_pnl
                   /\ daily_limit_breached' = size.daily_limit_breached
                   /\ IF st_ret'.raised
                      THEN \* lines 264-266
                           /\ run_entry' = "raised"
                           /\ run_pc' = "top"
                           /\ UNCHANGED loopVars
                      ELSE /\ run_entry' =
                                 IF CheckMarginRequirement(st_ret'.orders)
                                 THEN "sent" ELSE "margin_failed"
                           /\ tick_actions' =
                                 IF CheckMarginRequirement(st_ret'.orders)
                                 THEN Append(tick_actions, "entry")
                                 ELSE tick_actions
                           /\ ManageFrom(snapshot, open_positions')
              ELSE /\ UNCHANGED <<stVars, tick_actions>>
                   /\ run_entry' = IF chosen THEN "sizing_failed" ELSE "none"
                   /\ daily_pnl' = IF chosen THEN size.daily_pnl
                                   ELSE daily_pnl
                   /\ daily_limit_breached' =
                         IF chosen THEN size.daily_limit_breached
                         ELSE loss.daily_limit_breached
                   /\ ManageFrom(snapshot, open_positions)
    /\ UNCHANGED <<processed_schedule, executed_for_date, run_now, run_exit,
                   fired, account_equity, emergency_mode>>

\* lines 235-258 and 264-266
RunPosition ==
    /\ run_pc = "manage"
    /\ TickPosition
    /\ run_pc' = IF tick_left' = 0 THEN "top" ELSE "manage"
    /\ UNCHANGED <<processed_schedule, executed_for_date, run_now,
                   run_entry, run_exit, fired>>

\* lines 261-263: KeyboardInterrupt
RunInterrupt ==
    /\ run_pc # "stopped"
    /\ run_pc' = "stopped"
    /\ run_exit' = "interrupt"
    /\ UNCHANGED <<processed_schedule, executed_for_date, run_now,
                   run_entry, fired, stVars, loopVars, riskVars>>

\* the owner of the risk manager reports a pnl between two passes, once a
\* day, and on a breach may go on to enter_emergency_mode as line 256-258
\* does
RiskReportCall ==
    /\ run_pc = "top"
    /\ PnlOf(daily_pnl, run_now.date) = 0
    /\ ~daily_limit_breached
    /\ \E pnl \in PnlReports(account_equity), enters \in BOOLEAN :
          LET upd == UpdatePnl(daily_pnl, daily_limit_breached,
                               account_equity, run_now.date, pnl)
          IN  /\ daily_pnl' = upd.daily_pnl
              /\ daily_limit_breached' = upd.daily_limit_breached
              /\ emergency_mode' = (emergency_mode \/ (upd.value /\ enters))
    /\ UNCHANGED <<account_equity, runVars, stVars, loopVars>>

InitRun ==
    /\ InitStrategy
    /\ inputs = PriceInputs
    /\ roll_pct = ROLL_PCT
    /\ InitLoop
    /\ InitRisk(Equities)
    /\ InitRunWith({TwoEntrySchedule})
    /\ InitClassifier
    /\ InitGatewayWith({[config |-> DefaultConfig, fill_callback |-> "none",
                         env |-> KeyEnv]})

NextRun ==
    \/ RunEmergency /\ UNCHANGED <<gwVars, clsVars, emitted>>
    \/ RunSchedule /\ UNCHANGED <<gwVars, clsVars, emitted>>
    \/ RunNoSnapshot /\ UNCHANGED <<gwVars, clsVars, netVars>>
    \/ RunEntry /\ UNCHANGED <<gwVars, clsVars, netVars>>
    \/ RunPosition /\ UNCHANGED <<gwVars, clsVars, netVars>>
    \/ RunInterrupt /\ UNCHANGED <<gwVars, clsVars, netVars>>
    \/ RiskReportCall /\ UNCHANGED <<gwVars, clsVars, netVars>>

SpecRun == InitRun /\ [][NextRun]_vars

InitRegime ==
    /\ InitStrategy
    /\ inputs = PriceInputs
    /\ roll_pct = ROLL_PCT
    /\ InitLoop
    /\ InitRisk({ACCOUNT_EQUITY})
    /\ InitRunWith({<< >>})
    /\ InitClassifierCalls
    /\ InitGatewayWith({[config |-> DefaultConfig, fill_callback |-> "none",
                         env |-> KeyEnv]})

NextRegime ==
    \/ ClassifyRegimeCall /\ UNCHANGED <<gwVars, stVars, loopVars, riskVars,
                                         runVars, netVars>>
    \/ ClassifyCall /\ UNCHANGED <<gwVars, stVars, loopVars, riskVars,
                                   runVars, netVars>>

SpecRegime == InitRegime /\ [][NextRegime]_vars

\* a call of send_orders that has started keeps running: the loop body is
\* straight-line code and requests.post has a timeout
InCall ==
    /\ NextOrderStep \/ AttemptStep \/ EndOrder \/ FinishBatchStep
    /\ UNCHANGED <<stVars, loopVars, riskVars, runVars, clsVars, netVars>>

SpecFair == Spec /\ WF_vars(InCall)

-----------------------------------------------------------------------------
(***************************************************************************)
(* Order gateway: circuit breaker.                                         *)
(***************************************************************************)
Threshold == config.circuit_breaker_threshold

Timeout == config.circuit_breaker_timeout

\* the breaker is open and its timeout has not elapsed
WithinTimeout == /\ circuit_state = "OPEN"
                 /\ now - circuit_open_time <= Timeout

\* C1: once all-failed batches bring consecutive_failures to the threshold
\* the state is OPEN, and every send_orders made before the timeout has
\* elapsed makes no request, returns (False, []) and leaves the counter, the
\* state, the opening time and both ledgers as they were.
C1_OpenBreakerRejects ==
    [][/\ (FinishBatchStep /\ ~any_success
             /\ consecutive_failures + 1 >= Threshold)
          => circuit_state' = "OPEN"
       /\ (SendOrdersCall /\ WithinTimeout /\ config.webhook_url # "")
          => /\ pc' = "idle"
             /\ net_calls' = 0
             /\ ret'.value = <<FALSE, << >> >>
             /\ ~ret'.raised
             /\ UNCHANGED <<gwBreaker, gwLedgers>>]_vars

C1_Witness ==
    /\ WithinTimeout
    /\ consecutive_failures = Threshold
    /\ Threshold = MaxThreshold
    /\ ret.op = "send_orders" /\ ret.at = 281
    /\ ret.value = <<FALSE, << >> >>

\* C2: a send_orders made more than the timeout after the breaker opened
\* puts it in HALF_OPEN and attempts the batch; if an order of that batch is
\* delivered the breaker is CLOSED with the counter at 0, otherwise it is
\* OPEN again with a new opening time.
C2_HalfOpenProbe ==
    [][/\ (SendOrdersCall /\ circuit_state = "OPEN" /\ ~WithinTimeout
             /\ config.webhook_url # "")
          => /\ circuit_state' = "HALF_OPEN"
             /\ pc' = "loop"
             /\ batch' \in Batches
       /\ (FinishBatchStep /\ circuit_state = "HALF_OPEN" /\ any_success)
          => /\ circuit_state' = "CLOSED"
             /\ consecutive_failures' = 0
       /\ (FinishBatchStep /\ circuit_state = "HALF_OPEN" /\ ~any_success)
          => /\ circuit_state' = "OPEN"
             /\ circuit_open_time' = now
             /\ circuit_open_time' > circuit_open_time]_vars

C2_Witness ==
    /\ circuit_state = "CLOSED"
    /\ circuit_open_time # NoneNum
    /\ consecutive_failures = 0
    /\ ret.op = "send_orders" /\ ret.at = 416
    /\ ret.value[1]

BreakerTransitions == {<<"CLOSED", "OPEN">>, <<"OPEN", "HALF_OPEN">>,
                       <<"HALF_OPEN", "CLOSED">>, <<"HALF_OPEN", "OPEN">>}

\* C3: while the breaker is OPEN consecutive_failures is at least the
\* threshold, and the state only ever moves CLOSED -> OPEN, OPEN -> HALF_OPEN,
\* HALF_OPEN -> CLOSED or HALF_OPEN -> OPEN.
C3_BreakerStateMachine ==
    /\ [](circuit_state = "OPEN" => consecutive_failures >= Threshold)
    /\ [][circuit_state' # circuit_state
          => <<circuit_state, circuit_state'>> \in BreakerTransitions]_vars

C3_Witness ==
    /\ circuit_state = "OPEN"
    /\ Threshold > 1
    /\ consecutive_failures > Threshold
    /\ now > circuit_open_time

-----------------------------------------------------------------------------
(***************************************************************************)
(* Order gateway: retries, idempotency keys, fills.                        *)
(***************************************************************************)
FailedResponse(r) == /\ ~r.success
                     /\ r.status = "failed"
                     /\ r.attempts = config.max_retries

\* a request of the current order has failed, or its loop ends undelivered
OrderFailingStep == \/ AttemptStep /\ ~order_success'
                    \/ EndOrder /\ ~order_success

\* C5: with max_retries N >= 1 an order whose requests all fail is attempted
\* exactly N times; its response has status "failed", success false and
\* attempts = N, and no pending record is made for it; when every order of
\* the batch fails any_success is false; send_orders terminates.
C5_RetriesThenFailed ==
    /\ [][/\ (EndOrder /\ ~order_success)
             => /\ attempt = config.max_retries
                /\ Len(sleeps) = config.max_retries - 1
                /\ responses' = Append(responses, responses'[Len(responses')])
                /\ FailedResponse(responses'[Len(responses')])
          /\ OrderFailingStep => UNCHANGED pending_orders
          /\ (FinishBatchStep /\ \A k \in DOMAIN responses :
                                   ~responses[k].success)
             => /\ ~ret'.value[1]
                /\ ret'.value[2] = responses]_vars
    /\ (pc # "idle") ~> (pc = "idle")

C5_Witness ==
    /\ ret.op = "send_orders" /\ ret.at = 416
    /\ config.max_retries = MaxRetries
    /\ Len(ret.value[2]) = MaxOrders
    /\ \A k \in DOMAIN ret.value[2] : FailedResponse(ret.value[2][k])
    /\ ~ret.value[1]
    /\ DOMAIN pending_orders = {}

\* C6: the idempotency keys that one call of send_orders assigns to its
\* orders are pairwise distinct, whatever the random suffixes and the tag.
C6_KeysDistinct ==
    \A i, j \in DOMAIN keys : i # j => keys[i] # keys[j]

\* two orders of one call drew the same suffix under the same tag
C6_Witness ==
    /\ Len(keys) >= 2
    /\ SubSeq(keys[1], Len(keys[1]) - SuffixLen + 1, Len(keys[1])) =
       SubSeq(keys[2], Len(keys[2]) - SuffixLen + 1, Len(keys[2]))
    /\ SubSeq(keys[1], 1, TagLen) = SubSeq(keys[2], 1, TagLen)
    /\ keys[1] \in DOMAIN pending_orders
    /\ keys[2] \in DOMAIN pending_orders

\* C7: confirm_fill of the gateway with a key that is not pending returns
\* False, raises nothing, invokes no callback and leaves both ledgers as
\* they were.
C7_UnknownKeyNoEffect ==
    [][\A key \in KnownKeys, fa \in FillArgs :
         (ConfirmFill(key, fa[1], fa[2]) /\ key \notin DOMAIN pending_orders)
         => /\ ret'.value = <<FALSE>>
            /\ ~ret'.raised
            /\ UNCHANGED <<gwLedgers, callback_log>>]_vars

C7_Witness ==
    /\ ret.op = "confirm_fill"
    /\ ret.value = <<FALSE>>
    /\ ~ret.raised
    /\ DOMAIN pending_orders # {}
    /\ fill_callback # "none"
    /\ DOMAIN callback_log = {}

\* C8: confirm_fill with a pending key takes the record out of the pending
\* ledger and puts it in the filled ledger with status "filled" and the
\* given price and time, invokes the callback exactly once when one is set,
\* and returns True; an exception of the callback does not propagate.
C8_PendingKeyFilled ==
    [][\A key \in KnownKeys, fa \in FillArgs :
         (ConfirmFill(key, fa[1], fa[2]) /\ key \in DOMAIN pending_orders)
         => /\ DOMAIN pending_orders' = DOMAIN pending_orders \ {key}
            /\ \A k \in DOMAIN pending_orders' :
                  pending_orders'[k] = pending_orders[k]
            /\ DOMAIN filled_orders' = DOMAIN filled_orders \cup {key}
            /\ \A k \in DOMAIN filled_orders \ {key} :
                  filled_orders'[k] = filled_orders[k]
            /\ filled_orders'[key].status = "filled"
            /\ filled_orders'[key].order = pending_orders[key].order
            /\ filled_orders'[key].order_id = pending_orders[key].order_id
            /\ filled_orders'[key].fill_price = fa[1]
            /\ filled_orders'[key].fill_time =
                  IF fa[2] = None THEN IsoNow ELSE fa[2]
            /\ Count(callback_log', key) =
                  Count(callback_log, key) +
                  IF fill_callback = "none" THEN 0 ELSE 1
            /\ \A k \in DOMAIN callback_log \ {key} :
                  callback_log'[k] = callback_log[k]
            /\ ret'.value = <<TRUE>>
            /\ ~ret'.raised]_vars

C8_Witness ==
    /\ ret.op = "confirm_fill"
    /\ ret.value = <<TRUE>>
    /\ fill_callback = "raises"
    /\ \E key \in DOMAIN filled_orders :
          /\ filled_orders[key].fill_price = 100
          /\ filled_orders[key].fill_time # IsoNow
          /\ key \notin DOMAIN pending_orders
          /\ Count(callback_log, key) = 1

-----------------------------------------------------------------------------
(***************************************************************************)
(* Strategy engine: on_tick.                                               *)
(***************************************************************************)
Reasons == {"stoploss", "target", "roll", "add_otm", "remove_otm", "otm_exit"}

\* the four triggers of on_tick, in priority order, before the call
\* the mark-to-market of the whole position: every leg's MTM plus the
\* realized carry
RECURSIVE SumMtm(_)
SumMtm(positions) ==
    IF positions = << >> THEN 0
    ELSE positions[1].mtm + SumMtm(Tail(positions))

PositionMtm(snapshot) ==
    SumMtm(MarkToMarket(open_positions, snapshot.option_chain))
        + realized_ce_mtm + realized_pe_mtm

StopOrTargetHolds(snapshot) ==
    StopHit(PositionMtm(snapshot)) \/ TargetHit(PositionMtm(snapshot))

RollHolds(snapshot) == CeShouldRoll(snapshot) \/ PeShouldRoll(snapshot)

WingsWanted(snapshot) ==
    \/ snapshot.regime \in {"VOLATILE", "TRENDING_UP", "TRENDING_DOWN"}
    \/ snapshot.iv_estimates # NoneNum /\ snapshot.iv_estimates > HIGH_IV
    \/ snapshot.iv_rank > HIGH_IV_RANK

WingAddHolds(snapshot) == WingsWanted(snapshot) /\ ~has_otm_wings

WingRemoveHolds(snapshot) ==
    ~WingsWanted(snapshot) /\ has_otm_wings /\ otm_legs # << >>

WingExitHolds(snapshot) ==
    \E k \in 1..Len(otm_legs) : WingMoved(otm_legs[k], snapshot.option_chain)

Holding(snapshot) ==
    (IF StopOrTargetHolds(snapshot) THEN {1} ELSE {}) \cup
    (IF RollHolds(snapshot) THEN {2} ELSE {}) \cup
    (IF WingAddHolds(snapshot) \/ WingRemoveHolds(snapshot) THEN {3}
     ELSE {}) \cup
    (IF WingExitHolds(snapshot) THEN {4} ELSE {})

Highest(snapshot) ==
    CHOOSE p \in Holding(snapshot) : \A q \in Holding(snapshot) : p <= q

ReasonsOf(p) == CASE p = 1 -> {"stoploss", "target"}
                  [] p = 2 -> {"roll"}
                  [] p = 3 -> {"add_otm", "remove_otm"}
                  [] p = 4 -> {"otm_exit"}

\* C9: each on_tick call returns None or exactly one action whose reason is
\* stoploss, target, roll, add_otm, remove_otm or otm_exit; when the total
\* MTM is strictly between the stop and target bounds, no side meets the
\* roll conditions, wings need neither adding nor removing and no tracked
\* wing has moved by the exit percent, it returns None and emits no order.
C9_OneActionOrNone ==
    [][\A snapshot \in inputs.snapshots :
         OnTick(snapshot)
         => /\ ~st_ret'.raised
            /\ st_ret'.reason \in Reasons \cup {None}
            /\ Holding(snapshot) = {}
               => st_ret'.reason = None /\ st_ret'.orders = << >>]_vars

\* C10: when several on_tick triggers hold in one call only the one of
\* highest priority is acted on (stop/target, then roll, then wing add or
\* remove, then wing emergency exit), and the state owned by the triggers
\* of lower priority (last ATM, roll time, baselines, wing table, wing flag)
\* is left as it was.
C10_HighestPriorityOnly ==
    [][\A snapshot \in inputs.snapshots :
         (OnTick(snapshot) /\ Cardinality(Holding(snapshot)) >= 2)
         => /\ ~st_ret'.raised
            /\ st_ret'.reason \in ReasonsOf(Highest(snapshot))
            /\ Highest(snapshot) = 1
               => UNCHANGED <<last_atm, last_roll_time, baseline_ce_ltp,
                              baseline_pe_ltp, otm_legs, has_otm_wings>>
            /\ Highest(snapshot) = 2
               => UNCHANGED <<otm_legs, has_otm_wings>>
            /\ (Highest(snapshot) = 3 /\ st_ret'.reason = "add_otm")
               => \A k \in 1..Len(otm_legs) : otm_legs'[k] = otm_legs[k]]_vars

-----------------------------------------------------------------------------
(***************************************************************************)
(* Strategy engine: stop and target.                                       *)
(***************************************************************************)
\* C11: on_tick returns reason "stoploss" exactly when the total MTM (the
\* MTM of every leg with a confirmed entry price, a leg without one counting
\* 0, plus the realized MTM) is <= -(STOPLOSS_PER_LOT * MESSAGE_LOTS *
\* LOT_SIZE), and reason "target" exactly when it is >= TARGET_PER_LOT *
\* MESSAGE_LOTS * LOT_SIZE.
C11_StopAndTarget ==
    [][\A snapshot \in inputs.snapshots :
         OnTick(snapshot)
         => /\ (st_ret'.reason = "stoploss")
                  <=> StopHit(PositionMtm(snapshot))
            /\ (st_ret'.reason = "target")
                  <=> TargetHit(PositionMtm(snapshot))]_vars

-----------------------------------------------------------------------------
(***************************************************************************)
(* Strategy engine: rolling.                                               *)
(***************************************************************************)
\* the price a side was requested at: the baseline enter is to record
EntryBaseline(opt_type) ==
    IF opt_type = "C" THEN open_positions[1].requested_price
    ELSE open_positions[2].requested_price

\* the conditions under which a side is to roll; the model keeps no clock,
\* and no roll or entry ever starts one, so the hold time is not in the way
SideIsToRoll(snapshot, opt_type) ==
    LET ltp == IF opt_type = "C" THEN snapshot.ce_ltp ELSE snapshot.pe_ltp
    IN  /\ Abs(ltp - EntryBaseline(opt_type)) * 100
              >= roll_pct * EntryBaseline(opt_type)
        /\ Abs(snapshot.spot - last_atm) >= BUFFER
        /\ snapshot.atm_strike # last_atm

\* buy the old strike, then sell the new one
SideRollOrders(snapshot, opt_type) ==
    IF SideIsToRoll(snapshot, opt_type)
    THEN <<Order("buy", BuildOptionSymbol(last_atm, opt_type), MESSAGE_LOTS),
           Order("sell", BuildOptionSymbol(snapshot.atm_strike, opt_type),
                 MESSAGE_LOTS)>>
    ELSE << >>

\* C12: in an on_tick call where stop/target does not fire, a side rolls if
\* and only if its LTP has moved by ROLL_PCT percent off its baseline, the
\* spot is BUFFER away from last_atm, the hold time has passed and the ATM
\* differs from last_atm; a rolling side emits buy(old strike) then
\* sell(new strike) and the call returns one action with reason roll; a
\* side below its threshold emits nothing.
C12_SideRollsIffConditions ==
    [][\A snapshot \in inputs.snapshots :
         (OnTick(snapshot) /\ ~StopOrTargetHolds(snapshot))
         => IF SideIsToRoll(snapshot, "C") \/ SideIsToRoll(snapshot, "P")
            THEN /\ ~st_ret'.raised
                 /\ st_ret'.reason = "roll"
                 /\ st_ret'.orders = SideRollOrders(snapshot, "C")
                                        \o SideRollOrders(snapshot, "P")
            ELSE st_ret'.reason # "roll"]_vars

-----------------------------------------------------------------------------
(***************************************************************************)
(* Strategy engine: entry, tracked legs, exit.                             *)
(***************************************************************************)
\* no legs, no wings, not in position
Flat ==
    /\ open_positions = << >>
    /\ otm_legs = << >>
    /\ ~in_position
    /\ ~has_otm_wings

\* C13: enter on a flat strategy, with a snapshot that has an ATM strike and
\* both LTPs, completes normally, returns exactly two sell requests (call
\* and put at the ATM strike, MESSAGE_LOTS each) and leaves the strategy in
\* position with two legs in state requested and no entry price, last_atm
\* the ATM strike, the roll clock started and the baselines equal to the
\* snapshot's LTPs.
C13_EnterRequestsStraddle ==
    [][\A snapshot \in inputs.snapshots :
         (Flat /\ Enter(snapshot))
         => /\ ~st_ret'.raised
            /\ st_ret'.orders =
                  <<Order("sell", BuildOptionSymbol(snapshot.atm_strike, "C"),
                          MESSAGE_LOTS),
                    Order("sell", BuildOptionSymbol(snapshot.atm_strike, "P"),
                          MESSAGE_LOTS)>>
            /\ in_position'
            /\ Len(open_positions') = 2
            /\ \A k \in 1..2 : /\ open_positions'[k].state = "requested"
                               /\ open_positions'[k].entry_price = NoneNum
            /\ last_atm' = snapshot.atm_strike
            /\ last_roll_time' # None
            /\ baseline_ce_ltp' = snapshot.ce_ltp
            /\ baseline_pe_ltp' = snapshot.pe_ltp]_vars

\* on_tick gets to its roll branch (line 135) and the side rolls
RollBranchTaken(snapshot, opt_type) ==
    /\ OnTick(snapshot)
    /\ LET total == TotalMtm(MarkToMarket(open_positions,
                                          snapshot.option_chain))
       IN  ~StopHit(total) /\ ~TargetHit(total)
    /\ IF opt_type = "C" THEN CeShouldRoll(snapshot)
       ELSE PeShouldRoll(snapshot)

LegsTracked(positions) ==
    {positions[k].instrument : k \in 1..Len(positions)}

\* C14: after a side rolls the tracked legs reflect the roll: the old-strike
\* instrument of that side is no longer tracked and the new-strike
\* instrument is tracked in state requested.
C14_RollUpdatesLegs ==
    [][\A snapshot \in inputs.snapshots : \A opt_type \in {"C", "P"} :
         RollBranchTaken(snapshot, opt_type)
         => /\ BuildOptionSymbol(last_atm, opt_type)
                  \notin LegsTracked(open_positions')
            /\ \E k \in 1..Len(open_positions') :
                  /\ open_positions'[k].instrument =
                        BuildOptionSymbol(snapshot.atm_strike, opt_type)
                  /\ open_positions'[k].state = "requested"]_vars

\* C15: exit returns one buy request per tracked leg, whatever its fill
\* state, and one sell request per tracked wing, and nothing else; on return
\* the strategy is flat: no legs, no wings, in_position false, has_otm_wings
\* false, baselines absent and realized MTM zero.
C15_ExitFlattens ==
    [][ExitCall
       => /\ ~st_ret'.raised
          /\ Len(st_ret'.orders) = Len(open_positions) + Len(otm_legs)
          /\ \A k \in 1..Len(open_positions) :
                st_ret'.orders[k] = Order("buy", open_positions[k].instrument,
                                          MESSAGE_LOTS)
          /\ \A k \in 1..Len(otm_legs) :
                st_ret'.orders[Len(open_positions) + k] =
                   Order("sell", otm_legs[k].instrument, MESSAGE_LOTS)
          /\ Flat'
          /\ baseline_ce_ltp' = NoneNum /\ baseline_pe_ltp' = NoneNum
          /\ realized_ce_mtm = 0 /\ realized_pe_mtm = 0]_vars

\* an exit of two legs and two wings has returned and left the strategy flat
C15_Witness ==
    /\ st_ret.op = "exit"
    /\ Len(st_ret.orders) = 4
    /\ st_ret.orders[1].action = "buy" /\ st_ret.orders[2].action = "buy"
    /\ st_ret.orders[3].action = "sell" /\ st_ret.orders[4].action = "sell"
    /\ Flat

\* the tracked legs of one side
SideLegs(positions, opt_type) ==
    {k \in 1..Len(positions) :
        /\ positions[k].side = "S"
        /\ ParseInstrument(positions[k].instrument).opt_type = opt_type}

\* the strategy holds a straddle: it is in position, or tracks legs it has
\* requested
HoldsStraddle == in_position \/ open_positions # << >>

-----------------------------------------------------------------------------
(***************************************************************************)
(* Control loop: actions per tick.                                         *)
(***************************************************************************)
\* C17: in one tick of the control loop the strategy produces at most one
\* action: at most one of roll, wing add, wing remove, wing exit, stop or
\* target is returned by on_tick and dispatched.
C17_OneActionPerTick == Len(tick_actions) <= 1

-----------------------------------------------------------------------------
(***************************************************************************)
(* Strategy engine: wings.                                                 *)
(***************************************************************************)
\* the sell requests for an instrument among the orders of an action
SellsOf(orders, instrument) ==
    {k \in 1..Len(orders) : /\ orders[k].action = "sell"
                            /\ orders[k].instrument = instrument}

\* the fill price of a confirmed wing, else its requested price
WingBaseline(meta) ==
    IF meta.entry_price # NoneNum THEN meta.entry_price
    ELSE IF meta.requested_price # NoneNum THEN meta.requested_price
    ELSE 0

\* |current - baseline| / baseline x 100 >= OTM_EXIT_PCT
MovedOffBaseline(meta, snapshot) ==
    /\ WingBaseline(meta) > 0
    /\ Abs(LtpForInstrument(snapshot.option_chain, meta.instrument)
           - WingBaseline(meta)) * 100 >= OTM_EXIT_PCT * WingBaseline(meta)

\* the call came to the wing check: it gave back a wing exit or nothing
ReachedWingCheck(r) ==
    /\ r.op = "on_tick"
    /\ ~r.raised
    /\ r.reason \in {None, "otm_exit"}

BuysOf(orders, opt_type) ==
    {k \in 1..Len(orders) :
        /\ orders[k].action = "buy"
        /\ ParseInstrument(orders[k].instrument).opt_type = opt_type}

\* C19: in an on_tick call where neither stop or target nor roll fires,
\* when wings should exist (WingsWanted) and no wing is tracked, a buy for
\* a call wing and a buy for a put wing are requested and both wings
\* become tracked; when wings should not exist and a wing is tracked, a
\* sell is requested for every tracked wing and the wing table becomes
\* empty.
C19_WingsFollowRegime ==
    [][\A snapshot \in inputs.snapshots :
          (/\ OnTick(snapshot)
           /\ ~StopOrTargetHolds(snapshot)
           /\ ~RollHolds(snapshot)) =>
             /\ (WingsWanted(snapshot) /\ otm_legs = << >>) =>
                  /\ ~st_ret'.raised
                  /\ \A opt_type \in {"C", "P"} :
                        \E k \in BuysOf(st_ret'.orders, opt_type) :
                           st_ret'.orders[k].instrument
                              \in Tracked(otm_legs')
             /\ (~WingsWanted(snapshot) /\ otm_legs # << >>) =>
                  /\ ~st_ret'.raised
                  /\ \A k \in 1..Len(otm_legs) :
                        SellsOf(st_ret'.orders, otm_legs[k].instrument)
                           # {}
                  /\ otm_legs' = << >>]_vars

Odd(n) == n % 2 = 1

\* C20: after any sequence of enter, on_tick, exit and confirm_fill calls
\* the number of tracked wings is 0 or even, except after a wing emergency
\* exit that removed a single wing since wings were last added: the wing
\* table gets an odd size only by an on_tick call that gives back a wing
\* exit, and keeps one only until wings are added again.
C20_WingsInPairs ==
    [][Odd(Len(otm_legs')) =>
          \/ st_ret'.op = "on_tick" /\ st_ret'.reason = "otm_exit"
          \/ Odd(Len(otm_legs)) /\ st_ret'.reason # "add_otm"]_vars

-----------------------------------------------------------------------------
(***************************************************************************)
(* Strategy engine: fills.                                                 *)
(***************************************************************************)
\* the instruments of the entries marked filled or carrying an entry price
FilledIn(entries) ==
    {entries[k].instrument :
        k \in {j \in 1..Len(entries) : \/ entries[j].state = "filled"
                                       \/ entries[j].entry_price # NoneNum}}

\* C21: a leg or wing gets the state filled and an entry price only inside
\* a confirm_fill call of the strategy that names its instrument; no enter,
\* on_tick or exit step marks one filled.
C21_FilledOnlyByConfirmFill ==
    [][\A instrument \in (FilledIn(open_positions') \ FilledIn(open_positions))
                         \cup (FilledIn(otm_legs') \ FilledIn(otm_legs)) :
          \E fill_price \in inputs.fill_prices :
             StrategyConfirmFill(instrument, fill_price)]_vars

\* a requested leg and a requested wing have both been confirmed
C21_Witness ==
    /\ st_ret.op = "confirm_fill"
    /\ \E k \in 1..Len(open_positions) :
          /\ open_positions[k].state = "filled"
          /\ open_positions[k].entry_price \in inputs.fill_prices
    /\ \E k \in 1..Len(otm_legs) :
          /\ otm_legs[k].state = "filled"
          /\ otm_legs[k].requested_price # NoneNum
          /\ otm_legs[k].entry_price \in inputs.fill_prices

(***************************************************************************)
(* Control loop: the exit schedule.                                        *)
(***************************************************************************)
\* the times of the date of now_dt that are not before now_dt
RestOfDate(now_dt) == {t \in LaterTimes(now_dt) : t.date = now_dt.date}

\* the ids marked as executed on the date of now_dt
ExecutedOn(now_dt, executed) ==
    IF now_dt.date \in DOMAIN executed THEN executed[now_dt.date] ELSE {}

C23_StopsOnlyAfterForcedExit ==
    [][/\ (run_pc # "stopped" /\ run_pc' = "stopped")
              => run_exit' \in {"final", "emergency"}
       /\ run_pc = "stopped"
              => (run_pc' = "stopped" /\ tick_actions' = tick_actions)
       /\ (run_pc \in {"poll", "manage"} /\ st_ret'.raised
              /\ st_ret' # st_ret)
              => run_pc' # "stopped"]_vars

(***************************************************************************)
(* Control loop: emergency mode.                                           *)
(***************************************************************************)
\* C24: the emergency flag is never cleared, and once it is set the loop
\* dispatches nothing but the forced exit of the emergency pass and stops
\* with that pass.
C24_EmergencyIsTerminal ==
    [][emergency_mode
          => /\ emergency_mode'
             /\ tick_actions' \notin {tick_actions, << >>}
                   => tick_actions' = <<"emergency-exit">>
             /\ <<stVars, runVars, clsVars>>' # <<stVars, runVars, clsVars>>
                   => run_pc' = "stopped"]_vars

\* the emergency pass has closed the open legs and stopped the loop
C24_Witness ==
    /\ emergency_mode
    /\ run_pc = "stopped"
    /\ run_exit = "emergency"
    /\ tick_actions = <<"emergency-exit">>
    /\ open_positions = << >>
    /\ st_ret.op = "exit"

(***************************************************************************)
(* Control loop: the daily-loss gate.                                      *)
(***************************************************************************)
\* the limit is breached: the flag is up or the loss of the date has
\* reached the limit
DailyLossBreached ==
    \/ daily_limit_breached
    \/ LossLimitReached(PnlOf(daily_pnl, run_now.date), account_equity)

\* C26: in a tick in which the daily-loss limit is breached the entry part
\* calls no enter and dispatches no entry order, the open positions are
\* still handed to on_tick, and what on_tick returns is still dispatched.
C26_BreachBlocksEntryOnly ==
    [][/\ (RunEntry /\ DailyLossBreached)
              => /\ UNCHANGED <<stVars, tick_actions>>
                 /\ run_entry' = "none"
                 /\ tick_left' = Len(open_positions)
                 /\ open_positions # << >> => run_pc' = "manage"
       /\ (RunPosition /\ daily_limit_breached)
              => /\ st_ret'.op = "on_tick"
                 /\ st_ret'.reason # None
                       => tick_actions' = Append(tick_actions,
                                                 st_ret'.reason)]_vars

\* in a tick after the limit was breached on_tick has returned an action
\* for the open legs and it was dispatched
C26_Witness ==
    /\ daily_limit_breached
    /\ ~emergency_mode
    /\ run_entry = "none"
    /\ run_pc \in {"manage", "top"}
    /\ st_ret.op = "on_tick"
    /\ st_ret.reason # None
    /\ tick_actions = <<st_ret.reason>>

(***************************************************************************)
(* Control loop: sizing and margin.                                        *)
(***************************************************************************)
\* compute_size returns no sizing in the present state
SizingFails ==
    ~ComputeSize(daily_pnl, daily_limit_breached, emergency_mode,
                 account_equity, run_now.date).sized

C27_ReloadRestoresLedgers ==
    pc = "idle"
        => LoadPersistedOrders(pending_snapshot, filled_snapshot)
              = [pending |-> pending_orders, filled |-> filled_orders]

(***************************************************************************)
(* Order gateway: the status poll.                                         *)
(***************************************************************************)
\* C28: poll_pending with a template goes through every pending record:
\* a record the status endpoint answers with 200 and a terminal status is
\* filled and no longer pending, every other record is pending as before,
\* and no record keeps the records after it from being polled.
C28_PollSettlesEveryRecord ==
    [][\A template \in env.templates \ {None} :
         \A answers \in [DOMAIN pending_orders -> PollOutcomes] :
            PollPending(template, answers)
               => /\ ~ret'.raised
                  /\ \A k \in DOMAIN pending_orders :
                        IF IsTerminalAnswer(answers[k])
                        THEN /\ k \in DOMAIN filled_orders'
                             /\ k \notin DOMAIN pending_orders'
                        ELSE /\ k \in DOMAIN pending_orders'
                             /\ pending_orders'[k] = pending_orders[k]
                             /\ k \notin DOMAIN filled_orders']_vars

(***************************************************************************)
(* Order gateway: simulation mode.                                         *)
(***************************************************************************)
\* the fields of the response of a delivered live order (lines 339-347)
LiveSuccessFields ==
    {"order", "status", "success", "order_id", "idempotency_key",
     "response", "simulated"}

\* C29: in simulation mode send_orders makes no network request and
\* returns any_success true with one response per order, each a success
\* with status 200 and the fields of a live successful response.
C29_SimulatedLikeLive ==
    [][\A orders \in Batches, tag \in env.tags, rnd \in RandomTags,
          sim_id \in env.suffixes :
          (config.simulation_mode /\ SendOrders(orders, tag, rnd, sim_id))
             => /\ net_calls' = 0
                /\ ret'.value[1] = TRUE
                /\ Len(ret'.value[2]) = Len(orders)
                /\ \A k \in 1..Len(orders) :
                      /\ ret'.value[2][k].order = orders[k]
                      /\ ret'.value[2][k].status = 200
                      /\ ret'.value[2][k].success
                      /\ DOMAIN ret'.value[2][k] = LiveSuccessFields]_vars

(***************************************************************************)
(* Regime classifier: the label.                                           *)
(***************************************************************************)
RegimeLabels ==
    {"VOLATILE", "TRENDING_UP", "TRENDING_DOWN", "CALM", "TRANSITION"}

\* the label the priority order gives
LabelByPriority(m) ==
    CASE HighVolatility(m) /\ ~StrongTrend(m) -> "VOLATILE"
      [] ~(HighVolatility(m) /\ ~StrongTrend(m))
            /\ StrongTrend(m) /\ Uptrend(m) -> "TRENDING_UP"
      [] ~(HighVolatility(m) /\ ~StrongTrend(m))
            /\ ~(StrongTrend(m) /\ Uptrend(m))
            /\ StrongTrend(m) /\ Downtrend(m) -> "TRENDING_DOWN"
      [] ~(HighVolatility(m) /\ ~StrongTrend(m))
            /\ ~(StrongTrend(m) /\ Uptrend(m))
            /\ ~(StrongTrend(m) /\ Downtrend(m))
            /\ LowVolatility(m) /\ ~ModerateTrend(m) -> "CALM"
      [] OTHER -> "TRANSITION"

\* the snapshot has too few candles for an indicator, or too short an IV
\* series
InsufficientData(snap) ==
    \/ snap.ohlc_len < SMA_PERIOD + SMA_LOOKBACK
    \/ snap.iv_len < IV_MIN_LEN

-----------------------------------------------------------------------------
(***************************************************************************)
(* Control loop: the MTM reported on a stop or target exit.                *)
(***************************************************************************)
\* the management step dispatches a stop or target exit
StopOrTargetDispatched ==
    /\ tick_left > 0
    /\ Len(tick_actions') = Len(tick_actions) + 1
    /\ tick_actions'[Len(tick_actions')] \in {"stoploss", "target"}

\* C31: when a stop or target exit is dispatched, the amount update_pnl adds
\* to the day's cumulative PnL is the total MTM of the position as on_tick
\* marked it in that tick, and when that total takes the day's loss to the
\* daily-loss limit the loop is in emergency mode at the end of the step.
C31_StopFeedsTotalMtm ==
    [][\A snapshot \in tick_snapshot :
         StopOrTargetDispatched
         => LET today == run_now.date
                total == PositionMtm(snapshot)
            IN  /\ PnlOf(daily_pnl', today) - PnlOf(daily_pnl, today) = total
                /\ LossLimitReached(PnlOf(daily_pnl, today) + total,
                                    account_equity)
                   => emergency_mode']_vars

-----------------------------------------------------------------------------
(***************************************************************************)
(* Order gateway: backoff.                                                 *)
(***************************************************************************)
\* min(initial_retry_delay * 2^(k-1), max_retry_delay)
BackoffDelay(k) ==
    LET doubled == config.initial_retry_delay * 2 ^ (k - 1)
    IN  IF doubled < config.max_retry_delay THEN doubled
        ELSE config.max_retry_delay

\* C32: while an order is tried, the k-th sleep (after the k-th failed
\* attempt) is min(initial_retry_delay * 2^(k-1), max_retry_delay), there is
\* one sleep after every failed attempt but the last allowed one, and no
\* sleep is longer than max_retry_delay.
C32_BackoffDoublesUnderCap ==
    pc = "retry"
    => /\ Len(sleeps) = (IF order_success THEN attempt - 1
                         ELSE IF attempt < config.max_retries THEN attempt
                         ELSE config.max_retries - 1)
       /\ \A k \in 1..Len(sleeps) :
             /\ sleeps[k] = BackoffDelay(k)
             /\ sleeps[k] <= config.max_retry_delay

-----------------------------------------------------------------------------
(***************************************************************************)
(* Order gateway: one pending record per delivered order.                  *)
(***************************************************************************)
\* a request of the order in hand has been answered with status 200
SuccessfulDelivery == pc = "retry" /\ ~order_success /\ order_success'

\* C33: in a live batch that passed the breaker, a delivery answered with
\* status 200 adds to the pending ledger exactly the record of its order,
\* with status "pending", under the idempotency key of that order, and
\* appends the order's response; a failed attempt and the giving up of an
\* order leave the ledger as it was; when the order is done there is one
\* response for each order so far, in order; and the responses returned
\* are those, one for each order of the batch.  With a key that is not yet
\* in the ledger a delivery makes the ledger one record larger.
C33_OnePendingPerDelivery ==
    [][/\ SuccessfulDelivery
          => /\ idempotency_key = keys[order_index + 1]
             /\ DOMAIN pending_orders' =
                   DOMAIN pending_orders \cup {idempotency_key}
             /\ \A k \in DOMAIN pending_orders \ {idempotency_key} :
                   pending_orders'[k] = pending_orders[k]
             /\ pending_orders'[idempotency_key].status = "pending"
             /\ pending_orders'[idempotency_key].order = batch[order_index + 1]
             /\ idempotency_key \notin DOMAIN pending_orders
                => Cardinality(DOMAIN pending_orders') =
                      Cardinality(DOMAIN pending_orders) + 1
             /\ Len(responses') = order_index + 1
             /\ responses'[order_index + 1].success
             /\ responses'[order_index + 1].idempotency_key = idempotency_key
       /\ (pc = "retry" /\ ~order_success')
          => pending_orders' = pending_orders
       /\ (pc = "retry" /\ pc' = "loop")
          => /\ Len(responses') = order_index'
             /\ responses'[order_index'].order = batch[order_index']
             /\ responses'[order_index'].success <=> order_success
             /\ \A k \in 1..Len(responses) : responses'[k] = responses[k]
       /\ (pc = "loop" /\ pc' = "idle")
          => /\ ret'.value = <<any_success, responses>>
             /\ Len(responses) = Len(batch)
             /\ \A k \in 1..Len(batch) : responses[k].order = batch[k]]_vars

-----------------------------------------------------------------------------
(***************************************************************************)
(* Order gateway: the tag of the request URL.                              *)
(***************************************************************************)
\* the value of the first tag parameter of a query, << >> without one
TagOf(query) ==
    IF HasTagParam(query)
    THEN query[CHOOSE k \in 1..Len(query) :
                  /\ query[k].name = "tag"
                  /\ \A j \in 1..(k - 1) : query[j].name # "tag"].value
    ELSE << >>

\* the configured webhook URL carries a valid tag
UrlHasValidTag ==
    HasTagParam(config.webhook_query) /\ Is24Hex(TagOf(config.webhook_query))

\* C34: the URL an order is posted to carries a tag parameter of 24 hex
\* digits; when the configured webhook URL has a valid tag that tag is the
\* one sent; a generated tag is sent only when the configured URL has no
\* valid tag; and no step of send_orders changes the configured URL.
C34_UrlTagKept ==
    [][/\ pc' = "retry"
          => LET sent == TagOf(request_webhook'.query)
             IN  /\ HasTagParam(request_webhook'.query)
                 /\ Is24Hex(sent)
                 /\ UrlHasValidTag => sent = TagOf(config.webhook_query)
                 /\ sent \in RandomTags => ~UrlHasValidTag
       /\ config'.webhook_url = config.webhook_url
       /\ config'.webhook_query = config.webhook_query]_vars

-----------------------------------------------------------------------------
(***************************************************************************)
(* Strategy: fills of instruments it does not track.                       *)
(***************************************************************************)
\* confirm_fill is called for an instrument that is no tracked leg and no
\* tracked wing
OrphanFill ==
    /\ OrphanInstrument \notin LegsTracked(open_positions)
    /\ OrphanInstrument \notin Tracked(otm_legs)
    /\ \E fill_price \in inputs.fill_prices :
          StrategyConfirmFill(OrphanInstrument, fill_price)

\* C35: a confirm_fill for an instrument that is neither a tracked leg nor a
\* tracked wing adds nothing to the wings the strategy holds, and no later
\* on_tick or exit returns an order for that instrument.
C35_OrphanFillAuditOnly ==
    [][/\ OrphanFill => Tracked(otm_legs') = Tracked(otm_legs)
       /\ (OnTickCall \/ ExitCall)
          => \A k \in 1..Len(st_ret'.orders) :
                st_ret'.orders[k].instrument # OrphanInstrument]_vars

-----------------------------------------------------------------------------
(***************************************************************************)
(* Strategy: the orders of one life net to zero.                           *)
(***************************************************************************)
\* C36: when the final exit has returned, the orders the strategy returned
\* since it was built net to zero for every instrument: what was sold to
\* open has been bought back once, what was bought as a wing has been sold
\* once.
C36_OrdersNetToZero ==
    (st_ret.op = "exit" /\ ~st_ret.raised)
    => \A instrument \in DOMAIN emitted : emitted[instrument] = 0

-----------------------------------------------------------------------------
(***************************************************************************)
(* Strategy and control loop: wings are held only with a straddle.         *)
(***************************************************************************)
\* C37: whenever the strategy tracks a wing it is in position and tracks
\* legs.
C37_WingsOnlyInPosition ==
    otm_legs # << >> => (in_position /\ open_positions # << >>)

-----------------------------------------------------------------------------
(***************************************************************************)
(* Control loop: an entry of which no order was delivered.                 *)
(***************************************************************************)
\* the last pass called enter and handed no entry order to the gateway that
\* was delivered: enter raised, or the margin check refused the orders
EntryUndelivered == run_entry \in {"raised", "margin_failed"}

-----------------------------------------------------------------------------
(***************************************************************************)
(* Control loop: a force-liquidation whose orders were not delivered.      *)
(***************************************************************************)
\* the closing orders of the last force-liquidation were not delivered
ClosingUndelivered == closing # << >> /\ ~closing[1].any_ok

\* C39: the loop does not stop while the closing orders of a
\* force-liquidation remain undelivered.
C39_UndeliveredExitKeepsLoop ==
    ClosingUndelivered => run_pc # "stopped"

-----------------------------------------------------------------------------
(***************************************************************************)
(* Order gateway: the ledgers over restarts.                               *)
(***************************************************************************)
\* C40: in every state, those after a restart and a poll included, no
\* idempotency key is in the pending and in the filled ledger, and the fill
\* callback has run at most once for a key; and no step puts a key of the
\* filled ledger into the pending ledger.
C40_LedgersDisjointForever ==
    [][/\ DOMAIN pending_orders' \cap DOMAIN filled_orders' = {}
       /\ \A key \in DOMAIN callback_log' : callback_log'[key] <= 1
       /\ DOMAIN filled_orders \cap DOMAIN pending_orders' = {}]_vars

=============================================================================
